---- MODULE Spec2Model ----
(***************************************************************************)
(* Model of the DRRMS migration runner (src/migrations/migrate.py).        *)
(*                                                                         *)
(* The state is the migrations directory, the _migrations tracking table   *)
(* and, per invocation of the tool, the local variables and the position   *)
(* of migrate() and apply_migration().  One action is one step of the      *)
(* code; the outcome of every cursor.execute() on a script statement is an *)
(* input chosen by the database.                                           *)
(***************************************************************************)
EXTENDS Naturals, Integers, Sequences, FiniteSets, TLC

(***************************************************************************)
(* Bounds of the model.                                                    *)
(***************************************************************************)
\* at most this many files in the migrations directory
MaxFiles == 2
\* at most this many invocations of migrate()
MaxRuns == 2
\* a script of any content has at most this many fragments between ';'
MaxFragments == 2
\* and each fragment at most this many tokens
MaxTokens == 2

VARIABLES
    files,          \* the migrations directory: filename -> script content
    table_exists,   \* whether _migrations has been created
    migrations,     \* the committed rows of _migrations, in insertion order
    now,            \* the database clock (CURRENT_TIMESTAMP, time.time())
    runs,           \* number of migrate() invocations started so far
    pc,             \* per invocation: position in migrate()/apply_migration()
    connUp,         \* per invocation: whether its connection is still usable
    applied,        \* migrate(): local 'applied' (set of versions)
    pending,        \* migrate(): local 'pending' (discovered migrations)
    to_apply,       \* migrate(): local 'to_apply'
    idx,            \* migrate(): position of the for loop in to_apply
    statements,     \* apply_migration(): local 'statements'
    si,             \* apply_migration(): position of the statement loop
    start_time,     \* apply_migration(): local 'start_time'
    executed,       \* statements handed to cursor.execute in this attempt
    results,        \* values returned by apply_migration() in this run
    txn,            \* uncommitted tracking-table writes of the connection
    attempts,       \* migrations passed to apply_migration() in this run
    stdout,         \* what the run printed (message tags)
    listing,        \* rows printed by show_status() in this run
    changed,        \* the directory or the table was changed by hand since
                    \* the last invocation started
    rerun,          \* per migrate() run: how the invocation before it ended,
                    \* when nothing was changed in between
    exit_status,    \* per invocation: the exit status of the process, once
                    \* it has ended
    open_conn,      \* per invocation: the process holds a connection and a
                    \* cursor it has not closed
    \* the command line interface (src/cli) and the web API (src/webapp)
    db,             \* the tables Inventory, Request and Disaster
    stock0,         \* the Inventory table before the first command
    cpc,            \* per command process: where it is in its command
    cmd,            \* per command process: the command and its arguments
    source,         \* per command process: the local of transfer_stock
    connection_pool,\* per command process: the global of db_connection.py
    res,            \* what the last execute_query or query_db call did
    echo            \* per command process: what the command printed (tags)

\* the variables of the migration tool, and those of the commands
migrateVars == <<files, table_exists, migrations, now, runs, pc, connUp,
                 applied, pending, to_apply, idx, statements, si, start_time,
                 executed, results, txn, attempts, stdout, listing, changed,
                 rerun, exit_status, open_conn>>

cliVars == <<db, stock0, cpc, cmd, source, connection_pool, res, echo>>

vars == <<migrateVars, cliVars>>

\* the local variables of migrate(), of apply_migration(), and the output
runLocals   == <<applied, pending, to_apply, idx>>
applyLocals == <<statements, si, start_time, executed>>
outputs     == <<stdout, listing>>

(***************************************************************************)
(* Strings are sequences of one-character strings; Ord is the code point   *)
(* Python's sorted() and str comparison use.                               *)
(***************************************************************************)
Ord(c) ==
    CASE c = "-" -> 45 [] c = "." -> 46
      [] c = "0" -> 48 [] c = "1" -> 49 [] c = "2" -> 50 [] c = "3" -> 51
      [] c = "4" -> 52 [] c = "5" -> 53 [] c = "6" -> 54 [] c = "7" -> 55
      [] c = "8" -> 56 [] c = "9" -> 57
      [] c = "_" -> 95
      [] c = "a" -> 97 [] c = "b" -> 98 [] c = "c" -> 99 [] c = "d" -> 100
      [] c = "l" -> 108 [] c = "q" -> 113 [] c = "s" -> 115
      [] c = "t" -> 116 [] c = "x" -> 120

IsDigit(c) == c \in {"0", "1", "2", "3", "4", "5", "6", "7", "8", "9"}

\* str.__lt__: lexicographic comparison by code point
StrLess(a, b) ==
    \E i \in 1..(Len(a) + 1) :
        /\ \A j \in 1..(i - 1) : j <= Len(b) /\ a[j] = b[j]
        /\ \/ i > Len(a) /\ i <= Len(b)
           \/ i <= Len(a) /\ i <= Len(b) /\ Ord(a[i]) < Ord(b[i])

\* str.endswith
EndsWith(s, suf) ==
    /\ Len(s) >= Len(suf)
    /\ SubSeq(s, Len(s) - Len(suf) + 1, Len(s)) = suf

\* str.split(sep)[0]: the part before the first sep, or all of s
RECURSIVE SplitFirst(_, _)
SplitFirst(s, sep) ==
    IF s = <<>> \/ Head(s) = sep THEN <<>>
    ELSE <<Head(s)>> \o SplitFirst(Tail(s), sep)

\* str.replace(pat, ''): every occurrence of pat removed, left to right
RECURSIVE RemoveAll(_, _)
RemoveAll(s, pat) ==
    IF Len(s) < Len(pat) THEN s
    ELSE IF SubSeq(s, 1, Len(pat)) = pat
         THEN RemoveAll(SubSeq(s, Len(pat) + 1, Len(s)), pat)
         ELSE <<Head(s)>> \o RemoveAll(Tail(s), pat)

DotSql == <<".", "s", "q", "l">>

\* sorted(): insertion of x into an ascending list
RECURSIVE Insert(_, _)
Insert(x, s) ==
    IF s = <<>> THEN <<x>>
    ELSE IF StrLess(x, Head(s)) THEN <<x>> \o s
         ELSE <<Head(s)>> \o Insert(x, Tail(s))

RECURSIVE sorted(_)
sorted(s) == IF s = <<>> THEN <<>> ELSE Insert(Head(s), sorted(Tail(s)))

(***************************************************************************)
(* The files that may appear in the migrations directory.                  *)
(***************************************************************************)
File_1_a  == <<"1", "_", "a", ".", "s", "q", "l">>
File_2_b  == <<"2", "_", "b", ".", "s", "q", "l">>
File_10_c == <<"1", "0", "_", "c", ".", "s", "q", "l">>
File_1_d  == <<"1", "_", "d", ".", "s", "q", "l">>
File_x    == <<"x", "_", "1", ".", "s", "q", "l">>

FileNames == {File_1_a, File_2_b, File_10_c, File_1_d, File_x}

(***************************************************************************)
(* Script contents: the fragments between ';', each a sequence of tokens.  *)
(* SQL is statement text, BCMT a block comment, LCMT a line comment, WS    *)
(* whitespace.                                                             *)
(***************************************************************************)
ContentA == << <<"SQL">>, <<"SQL">>, <<>> >>
ContentB == << <<"BCMT">>, <<"SQL">>, <<"WS">>, <<"WS", "SQL", "WS">> >>

Contents == {ContentA, ContentB}


(***************************************************************************)
(* Database values.                                                        *)
(***************************************************************************)
\* SQL NULL in a numeric or timestamp column
NULL == -1
\* SQL NULL in applied_by
NoUser == "NULL"
\* USER() of the connection opened with DB_CONFIG
DbUser == "root@localhost"

\* messages of the errors cursor.execute() raises, as sequences of words
MsgDuplicate == <<"Duplicate", "entry">>
MsgExists    == <<"Table", "already exists">>
MsgOther     == <<"Unknown", "column">>
MsgLost      == <<"Lost", "connection">>
NoError      == <<>>

\* what the database answers to a script statement on a usable connection
Outcomes == {NoError, MsgDuplicate, MsgExists, MsgOther}

\* 'marker' in str(e)
Contains(msg, marker) == \E i \in 1..Len(msg) : msg[i] = marker

\* line 98 testing one marker only
ToleratedDuplicateOnly(msg) == Contains(msg, "Duplicate")
\* line 98 ignoring every error
ToleratesAll(msg) == msg # NoError
\* the test of line 98: the error is ignored
Tolerated(msg) == Contains(msg, "Duplicate") \/ Contains(msg, "already exists")

(***************************************************************************)
(* get_file_checksum: a digest of the bytes of the file.                   *)
(***************************************************************************)
TokenByte(t) ==
    CASE t = "SQL" -> 83 [] t = "BCMT" -> 47 [] t = "LCMT" -> 45 [] t = "WS" -> 32

RECURSIVE FileBytes(_)
FileBytes(content) ==
    IF content = <<>> THEN <<>>
    ELSE [i \in 1..Len(Head(content)) |-> TokenByte(Head(content)[i])]
         \o (IF Len(content) > 1 THEN <<59>> ELSE <<>>)
         \o FileBytes(Tail(content))

RECURSIVE Digest(_, _)
Digest(bytes, h) ==
    IF bytes = <<>> THEN h
    ELSE Digest(Tail(bytes), (h * 31 + Head(bytes)) % 65536)

get_file_checksum(content) == Digest(FileBytes(content), 7)

(***************************************************************************)
(* apply_migration, lines 90 and 93: the statements of a script.           *)
(***************************************************************************)
\* str.strip() of a fragment
RECURSIVE LStrip(_)
LStrip(f) == IF f # <<>> /\ Head(f) = "WS" THEN LStrip(Tail(f)) ELSE f

RECURSIVE RStrip(_)
RStrip(f) ==
    IF f # <<>> /\ f[Len(f)] = "WS" THEN RStrip(SubSeq(f, 1, Len(f) - 1)) ELSE f

Strip(f) == RStrip(LStrip(f))

\* [s.strip() for s in sql_content.split(';') if s.strip()]
RECURSIVE SplitStatements(_)
SplitStatements(content) ==
    IF content = <<>> THEN <<>>
    ELSE (IF Strip(Head(content)) # <<>> THEN <<Strip(Head(content))>> ELSE <<>>)
         \o SplitStatements(Tail(content))

\* the condition of line 93
ShouldExecute(st) == st # <<>> /\ Head(st) # "LCMT" /\ Head(st) # "BCMT"

(***************************************************************************)
(* The _migrations table.                                                  *)
(***************************************************************************)
HasRow(table, v) == \E i \in 1..Len(table) : table[i].version = v

\* lines 105-112 on a table whose version column is not UNIQUE
UpsertAppliedNoKey(table, op) ==
    Append(table, [version |-> op.version, name |-> op.name,
                   applied_at |-> op.at, applied_by |-> DbUser,
                   checksum |-> op.checksum,
                   execution_time_ms |-> op.execution_time,
                   status |-> "applied"])
\* lines 105-112 as INSERT IGNORE: an existing row is left as it is
UpsertAppliedIgnore(table, op) ==
    IF HasRow(table, op.version)
    THEN table
    ELSE Append(table, [version |-> op.version, name |-> op.name,
                        applied_at |-> op.at, applied_by |-> DbUser,
                        checksum |-> op.checksum,
                        execution_time_ms |-> op.execution_time,
                        status |-> "applied"])
\* the INSERT ... ON DUPLICATE KEY UPDATE of lines 105-112
UpsertApplied(table, op) ==
    IF HasRow(table, op.version)
    THEN [i \in 1..Len(table) |->
            IF table[i].version = op.version
            THEN [table[i] EXCEPT !.status = "applied",
                                  !.applied_at = op.at,
                                  !.execution_time_ms = op.execution_time]
            ELSE table[i]]
    ELSE Append(table, [version |-> op.version, name |-> op.name,
                        applied_at |-> op.at, applied_by |-> DbUser,
                        checksum |-> op.checksum,
                        execution_time_ms |-> op.execution_time,
                        status |-> "applied"])

\* lines 119-123 as INSERT IGNORE: an existing row keeps its status
UpsertFailedIgnore(table, op) ==
    IF HasRow(table, op.version)
    THEN table
    ELSE Append(table, [version |-> op.version, name |-> op.name,
                        applied_at |-> op.at, applied_by |-> NoUser,
                        checksum |-> NULL, execution_time_ms |-> NULL,
                        status |-> "failed"])
\* lines 119-123 without the status column: the row gets DEFAULT 'pending'
UpsertFailedDefault(table, op) ==
    IF HasRow(table, op.version)
    THEN [i \in 1..Len(table) |->
            IF table[i].version = op.version
            THEN [table[i] EXCEPT !.status = "failed"]
            ELSE table[i]]
    ELSE Append(table, [version |-> op.version, name |-> op.name,
                        applied_at |-> op.at, applied_by |-> NoUser,
                        checksum |-> NULL, execution_time_ms |-> NULL,
                        status |-> "pending"])
\* the INSERT ... ON DUPLICATE KEY UPDATE of lines 119-123
UpsertFailed(table, op) ==
    IF HasRow(table, op.version)
    THEN [i \in 1..Len(table) |->
            IF table[i].version = op.version
            THEN [table[i] EXCEPT !.status = "failed"]
            ELSE table[i]]
    ELSE Append(table, [version |-> op.version, name |-> op.name,
                        applied_at |-> op.at, applied_by |-> NoUser,
                        checksum |-> NULL, execution_time_ms |-> NULL,
                        status |-> "failed"])

Upsert(table, op) ==
    IF op.kind = "applied" THEN UpsertApplied(table, op) ELSE UpsertFailed(table, op)

\* conn.commit(): the uncommitted writes, in order, become visible
RECURSIVE ApplyOps(_, _)
ApplyOps(table, ops) ==
    IF ops = <<>> THEN table ELSE ApplyOps(Upsert(table, Head(ops)), Tail(ops))

\* get_applied_migrations returning no version
get_applied_migrations_none(table) == {}
\* get_applied_migrations without the WHERE clause
get_applied_migrations_all(table) ==
    {table[i].version : i \in 1..Len(table)}
\* SELECT version FROM _migrations WHERE status = 'applied'
get_applied_migrations(table) ==
    {table[i].version : i \in {j \in 1..Len(table) : table[j].status = "applied"}}

\* the filter and the dict of lines 68-75
IsMigrationFile(filename) ==
    /\ EndsWith(filename, DotSql)
    /\ filename # <<>>
    /\ IsDigit(filename[1])

MigrationOf(filename) ==
    [version  |-> SplitFirst(filename, "_"),
     name     |-> RemoveAll(filename, DotSql),
     filepath |-> filename]

RECURSIVE Discover(_)
Discover(names) ==
    IF names = <<>> THEN <<>>
    ELSE (IF IsMigrationFile(Head(names)) THEN <<MigrationOf(Head(names))>> ELSE <<>>)
         \o Discover(Tail(names))

\* get_pending_migrations, on what os.listdir returned
get_pending_migrations(listdir) == Discover(sorted(listdir))

\* line 166 without its filter
NotAppliedNone(ms, done) == ms
\* line 166: [m for m in pending if m['version'] not in applied]
NotApplied(ms, done) ==
    SelectSeq(ms, LAMBDA m : m.version \notin done)

\* os.listdir: the names of the directory in any order
Listings(names) ==
    {s \in [1..Cardinality(names) -> names] :
        \A i, j \in 1..Cardinality(names) : i # j => s[i] # s[j]}

\* show_status: SELECT ... ORDER BY version
RECURSIVE InsertRow(_, _)
InsertRow(r, s) ==
    IF s = <<>> THEN <<r>>
    ELSE IF StrLess(r.version, Head(s).version) THEN <<r>> \o s
         ELSE <<Head(s)>> \o InsertRow(r, Tail(s))

RECURSIVE OrderByVersion(_)
OrderByVersion(table) ==
    IF table = <<>> THEN <<>>
    ELSE InsertRow(table[Len(table)], OrderByVersion(SubSeq(table, 1, Len(table) - 1)))

StatusRow(r) ==
    [version |-> r.version, name |-> r.name, status |-> r.status,
     applied_at |-> r.applied_at]

\* show_status with WHERE status = 'applied'
show_status_applied(table) ==
    LET rows == OrderByVersion(SelectSeq(table, LAMBDA r : r.status = "applied"))
    IN  [i \in 1..Len(rows) |-> StatusRow(rows[i])]

show_status(table) ==
    LET rows == OrderByVersion(table)
    IN  [i \in 1..Len(rows) |-> StatusRow(rows[i])]


(***************************************************************************)
(* Invocations of the tool.  The tool is run one invocation at a time      *)
(* (Spec); Procs names the invocations that may overlap.                   *)
(***************************************************************************)
\* the process has not ended
NoExit == -1
\* the interpreter's exit status at the end of the script, and after an
\* exception that nothing caught
ExitOk == 0
ExitUncaught == 1
\* sys.exit(1)
ExitFailure == 1

\* get_connection with the except clause ending in sys.exit(0)
get_connection_exit_zero(connected) == IF connected THEN NoExit ELSE ExitOk
\* get_connection (lines 26-33): the process goes on with the connection,
\* or ends with sys.exit(1)
get_connection_exit(connected) == IF connected THEN NoExit ELSE ExitFailure

Procs == {"r1", "r2"}
Main  == {"r1"}

Running(p) == pc[p] \notin {"idle", "done", "crashed", "exited"}
Quiescent  == \A p \in Procs : ~Running(p)

Last(s) == s[Len(s)]

(***************************************************************************)
(* The commands of src/cli and the web API: each command is a process of   *)
(* its own; before any command the tables are empty and no process has     *)
(* started.                                                                *)
(***************************************************************************)
CliProcs == {"c1", "c2"}

\* no command yet, and no execute_query call yet
NoCmd == [name |-> "none"]

NoRes == [called |-> FALSE, by |-> "none", fetch |-> FALSE, conn |-> "none", direct_ok |-> FALSE,
          fault |-> "none", raised |-> "none", ret_none |-> TRUE, rows |-> <<>>,
          lastrowid |-> 0, rolled_back |-> FALSE, committed |-> FALSE,
          cursor_closed |-> FALSE, conn_closed |-> FALSE]

NoTables == [Inventory |-> {}, Request |-> <<>>, Disaster |-> <<>>]

CliIdle ==
    /\ db = NoTables
    /\ stock0 = {}
    /\ cpc = [p \in CliProcs |-> "idle"]
    /\ cmd = [p \in CliProcs |-> NoCmd]
    /\ source = [p \in CliProcs |-> <<>>]
    /\ connection_pool = [p \in CliProcs |-> "None"]
    /\ res = NoRes
    /\ echo = [p \in CliProcs |-> <<>>]

Init ==
    /\ files = <<>>
    /\ table_exists = FALSE
    /\ migrations = <<>>
    /\ now = 0
    /\ runs = 0
    /\ pc = [p \in Procs |-> "idle"]
    /\ connUp = [p \in Procs |-> FALSE]
    /\ applied = [p \in Procs |-> {}]
    /\ pending = [p \in Procs |-> <<>>]
    /\ to_apply = [p \in Procs |-> <<>>]
    /\ idx = [p \in Procs |-> 0]
    /\ statements = [p \in Procs |-> <<>>]
    /\ si = [p \in Procs |-> 0]
    /\ start_time = [p \in Procs |-> 0]
    /\ executed = [p \in Procs |-> <<>>]
    /\ results = [p \in Procs |-> <<>>]
    /\ txn = [p \in Procs |-> <<>>]
    /\ attempts = [p \in Procs |-> <<>>]
    /\ stdout = [p \in Procs |-> <<>>]
    /\ listing = [p \in Procs |-> <<>>]
    /\ changed = FALSE
    /\ rerun = [p \in Procs |-> "no"]
    /\ exit_status = [p \in Procs |-> NoExit]
    /\ open_conn = [p \in Procs |-> FALSE]
    /\ CliIdle

\* the locals of migrate() and apply_migration() of a fresh process
FreshLocals(p) ==
    /\ applied' = [applied EXCEPT ![p] = {}]
    /\ pending' = [pending EXCEPT ![p] = <<>>]
    /\ to_apply' = [to_apply EXCEPT ![p] = <<>>]
    /\ idx' = [idx EXCEPT ![p] = 0]
    /\ statements' = [statements EXCEPT ![p] = <<>>]
    /\ si' = [si EXCEPT ![p] = 0]
    /\ start_time' = [start_time EXCEPT ![p] = 0]
    /\ executed' = [executed EXCEPT ![p] = <<>>]
    /\ results' = [results EXCEPT ![p] = <<>>]
    /\ txn' = [txn EXCEPT ![p] = <<>>]
    /\ attempts' = [attempts EXCEPT ![p] = <<>>]
    /\ listing' = [listing EXCEPT ![p] = <<>>]

\* how the invocation before this one ended, when it was a migrate() run
\* that reached its end and nothing was changed by hand since
Preceding(p) ==
    IF pc[p] = "done" /\ ~changed /\ "status" \in {stdout[p][i] : i \in 1..Len(stdout[p])}
                      /\ "migrate" \in {stdout[p][i] : i \in 1..Len(stdout[p])}
    THEN (IF \A i \in 1..Len(results[p]) : results[p][i] THEN "clean" ELSE "failed")
    ELSE "no"

\* an exception leaves migrate() through its finally clause (lines 185-187):
\* the connection is closed and its uncommitted writes are rolled back
Raise(p) ==
    /\ pc' = [pc EXCEPT ![p] = "crashed"]
    /\ txn' = [txn EXCEPT ![p] = <<>>]
    /\ exit_status' = [exit_status EXCEPT ![p] = ExitUncaught]
    /\ open_conn' = [open_conn EXCEPT ![p] = FALSE]
    /\ UNCHANGED cliVars

\* whether the connection is still usable at the next database call: a
\* connection that was lost stays lost
StillUp(p) == IF connUp[p] THEN BOOLEAN ELSE {FALSE}

\* python migrate.py: migrate() up to get_connection() (lines 151-157, 26-33)
StartRun(p) ==
    /\ ~Running(p)
    /\ runs < MaxRuns
    /\ runs' = runs + 1
    /\ now' = now + 1
    /\ FreshLocals(p)
    /\ stdout' = [stdout EXCEPT ![p] = <<"migrate">>]
    /\ changed' = FALSE
    /\ rerun' = [rerun EXCEPT ![p] = Preceding(p)]
    /\ \E connected \in BOOLEAN :
          /\ connUp' = [connUp EXCEPT ![p] = connected]
          /\ pc' = [pc EXCEPT ![p] = IF connected THEN "ensure" ELSE "exited"]
          /\ exit_status' = [exit_status EXCEPT ![p] = get_connection_exit(connected)]
          /\ open_conn' = [open_conn EXCEPT ![p] = connected]
          /\ UNCHANGED cliVars
    /\ UNCHANGED <<files, table_exists, migrations>>

\* migrate() without line 160
EnsureTableSkipped(p) ==
    /\ pc[p] = "ensure"
    /\ \E up \in StillUp(p) :
          /\ connUp' = [connUp EXCEPT ![p] = up]
          /\ IF up
             THEN /\ pc' = [pc EXCEPT ![p] = "select"]
                  /\ UNCHANGED <<txn, exit_status, open_conn, cliVars>>
             ELSE Raise(p)
    /\ UNCHANGED <<files, table_exists, migrations, now, runs, runLocals,
                   applyLocals, results, attempts, outputs, changed, rerun>>

\* ensure_migration_table(cursor); conn.commit()  (lines 160-161)
EnsureTable(p) ==
    /\ pc[p] = "ensure"
    /\ \E up \in StillUp(p) :
          /\ connUp' = [connUp EXCEPT ![p] = up]
          /\ IF up
             THEN /\ table_exists' = TRUE
                  /\ pc' = [pc EXCEPT ![p] = "select"]
                  /\ UNCHANGED <<txn, exit_status, open_conn, cliVars>>
             ELSE /\ Raise(p)
                  /\ UNCHANGED table_exists
    /\ UNCHANGED <<files, migrations, now, runs, runLocals, applyLocals,
                   results, attempts, outputs, changed, rerun>>

\* lines 163-171: applied, pending, to_apply and the branch on to_apply
Select(p) ==
    /\ pc[p] = "select"
    /\ \E up \in StillUp(p) :
          /\ connUp' = [connUp EXCEPT ![p] = up]
          /\ IF up
             THEN \E listdir \in Listings(DOMAIN files) :
                    LET a  == get_applied_migrations(migrations)
                        pd == get_pending_migrations(listdir)
                        ta == NotApplied(pd, a)
                    IN  /\ applied' = [applied EXCEPT ![p] = a]
                        /\ pending' = [pending EXCEPT ![p] = pd]
                        /\ to_apply' = [to_apply EXCEPT ![p] = ta]
                        /\ IF ta = <<>>
                           THEN /\ stdout' = [stdout EXCEPT ![p] = Append(@, "no_pending")]
                                /\ pc' = [pc EXCEPT ![p] = "status"]
                                /\ UNCHANGED idx
                           ELSE /\ stdout' = [stdout EXCEPT ![p] = Append(@, "found")]
                                /\ pc' = [pc EXCEPT ![p] = "apply"]
                                /\ idx' = [idx EXCEPT ![p] = 1]
                        /\ UNCHANGED <<txn, exit_status, open_conn, cliVars>>
             ELSE /\ Raise(p)
                  /\ UNCHANGED <<runLocals, stdout>>
    /\ UNCHANGED <<files, table_exists, migrations, now, runs, applyLocals,
                   results, attempts, listing, changed, rerun>>

\* apply_migration, lines 81-90: start_time, read the file, split it
BeginApply(p) ==
    /\ pc[p] = "apply"
    /\ LET m == to_apply[p][idx[p]]
       IN  /\ attempts' = [attempts EXCEPT ![p] = Append(@, m)]
           /\ start_time' = [start_time EXCEPT ![p] = now]
           /\ statements' = [statements EXCEPT ![p] = SplitStatements(files[m.filepath])]
    /\ si' = [si EXCEPT ![p] = 1]
    /\ executed' = [executed EXCEPT ![p] = <<>>]
    /\ pc' = [pc EXCEPT ![p] = "stmt"]
    /\ UNCHANGED <<files, table_exists, migrations, now, runs, connUp,
                   runLocals, results, txn, outputs, changed, rerun,
                   exit_status, open_conn, cliVars>>

\* one iteration of the statement loop, lines 92-99
Statement(p) ==
    /\ pc[p] = "stmt"
    /\ si[p] <= Len(statements[p])
    /\ IF ~ShouldExecute(statements[p][si[p]])
       THEN /\ si' = [si EXCEPT ![p] = @ + 1]
            /\ UNCHANGED <<pc, executed, now, connUp>>
       ELSE \E up \in StillUp(p) :
            \E e \in (IF up THEN Outcomes ELSE {MsgLost}) :
              /\ connUp' = [connUp EXCEPT ![p] = up]
              /\ executed' = [executed EXCEPT ![p] =
                                Append(@, [stmt |-> si[p], error |-> e])]
              /\ now' = now + 1
              /\ IF e = NoError \/ Tolerated(e)
                 THEN /\ si' = [si EXCEPT ![p] = @ + 1]
                      /\ UNCHANGED pc
                 ELSE /\ pc' = [pc EXCEPT ![p] = "handler"]
                      /\ UNCHANGED si
    /\ UNCHANGED <<files, table_exists, migrations, runs, runLocals,
                   statements, start_time, results, txn, attempts, outputs,
                   changed, rerun, exit_status, open_conn, cliVars>>

\* the tracking-table write of the migration being applied
Op(p, kind) ==
    LET m == to_apply[p][idx[p]]
    IN  [kind |-> kind, version |-> m.version, name |-> m.name,
         checksum |-> get_file_checksum(files[m.filepath]),
         execution_time |-> now - start_time[p], at |-> now]

\* the row lock of the upsert: another connection holds an uncommitted write
\* of the same version, and the INSERT waits until that connection commits
\* or is closed
WriteLocked(p) ==
    \E q \in Procs \ {p} : \E i \in 1..Len(txn[q]) :
        txn[q][i].version = to_apply[p][idx[p]].version

\* lines 101-115: after the last statement, record the migration as applied
RecordApplied(p) ==
    /\ pc[p] = "stmt"
    /\ si[p] > Len(statements[p])
    /\ \E up \in StillUp(p) :
          /\ connUp' = [connUp EXCEPT ![p] = up]
          /\ IF up
             THEN /\ ~WriteLocked(p)
                  /\ txn' = [txn EXCEPT ![p] = Append(@, Op(p, "applied"))]
                  /\ results' = [results EXCEPT ![p] = Append(@, TRUE)]
                  /\ pc' = [pc EXCEPT ![p] = "commit"]
             ELSE /\ pc' = [pc EXCEPT ![p] = "handler"]
                  /\ UNCHANGED <<txn, results>>
    /\ UNCHANGED <<files, table_exists, migrations, now, runs, runLocals,
                   applyLocals, attempts, outputs, changed, rerun,
                   exit_status, open_conn, cliVars>>

\* lines 117-124: the except clause records the migration as failed
RecordFailed(p) ==
    /\ pc[p] = "handler"
    /\ \E up \in StillUp(p) :
          /\ connUp' = [connUp EXCEPT ![p] = up]
          /\ IF up
             THEN /\ ~WriteLocked(p)
                  /\ txn' = [txn EXCEPT ![p] = Append(@, Op(p, "failed"))]
                  /\ results' = [results EXCEPT ![p] = Append(@, FALSE)]
                  /\ pc' = [pc EXCEPT ![p] = "commit"]
                  /\ UNCHANGED <<exit_status, open_conn, cliVars>>
             ELSE /\ Raise(p)
                  /\ UNCHANGED results
    /\ UNCHANGED <<files, table_exists, migrations, now, runs, runLocals,
                   applyLocals, attempts, outputs, changed, rerun>>

\* line 177 without the break
StopsNever(success) == FALSE
\* line 177: 'if not success' after an attempt
Stops(success) == ~success

\* lines 175-181: conn.commit(), then stop or go on to the next migration
Commit(p) ==
    /\ pc[p] = "commit"
    /\ \E up \in StillUp(p) :
          /\ connUp' = [connUp EXCEPT ![p] = up]
          /\ IF up
             THEN /\ migrations' = ApplyOps(migrations, txn[p])
                  /\ txn' = [txn EXCEPT ![p] = <<>>]
                  /\ UNCHANGED <<exit_status, open_conn, cliVars>>
                  /\ IF Stops(Last(results[p]))
                     THEN /\ stdout' = [stdout EXCEPT ![p] = @ \o <<"stopping", "complete">>]
                          /\ pc' = [pc EXCEPT ![p] = "status"]
                          /\ UNCHANGED idx
                     ELSE IF idx[p] = Len(to_apply[p])
                     THEN /\ stdout' = [stdout EXCEPT ![p] = Append(@, "complete")]
                          /\ pc' = [pc EXCEPT ![p] = "status"]
                          /\ UNCHANGED idx
                     ELSE /\ idx' = [idx EXCEPT ![p] = @ + 1]
                          /\ pc' = [pc EXCEPT ![p] = "apply"]
                          /\ UNCHANGED stdout
             ELSE /\ Raise(p)
                  /\ UNCHANGED <<migrations, idx, stdout>>
    /\ UNCHANGED <<files, table_exists, now, runs, applied, pending,
                   to_apply, applyLocals, results, attempts, listing,
                   changed, rerun>>

\* lines 183-187: show_status(cursor), then the finally clause
ShowStatus(p) ==
    /\ pc[p] = "status"
    /\ \E up \in StillUp(p) :
          /\ connUp' = [connUp EXCEPT ![p] = up]
          /\ IF up
             THEN /\ listing' = [listing EXCEPT ![p] = show_status(migrations)]
                  /\ stdout' = [stdout EXCEPT ![p] = Append(@, "status")]
                  /\ pc' = [pc EXCEPT ![p] = "done"]
                  /\ exit_status' = [exit_status EXCEPT ![p] = ExitOk]
                  /\ open_conn' = [open_conn EXCEPT ![p] = FALSE]
                  /\ UNCHANGED cliVars
                  /\ UNCHANGED txn
             ELSE /\ Raise(p)
                  /\ UNCHANGED outputs
    /\ UNCHANGED <<files, table_exists, migrations, now, runs, runLocals,
                   applyLocals, results, attempts, changed, rerun>>

migrate(p) ==
    \/ StartRun(p)
    \/ EnsureTable(p)
    \/ Select(p)
    \/ BeginApply(p)
    \/ Statement(p)
    \/ RecordApplied(p)
    \/ RecordFailed(p)
    \/ Commit(p)
    \/ ShowStatus(p)

(***************************************************************************)
(* The other commands of the tool (lines 198-211).                         *)
(***************************************************************************)
\* python migrate.py status: get_connection() and conn.cursor(), lines 201-203
StartStatus(p) ==
    /\ ~Running(p)
    /\ runs < MaxRuns
    /\ runs' = runs + 1
    /\ now' = now + 1
    /\ FreshLocals(p)
    /\ stdout' = [stdout EXCEPT ![p] = <<>>]
    /\ changed' = FALSE
    /\ rerun' = [rerun EXCEPT ![p] = "no"]
    /\ \E connected \in BOOLEAN :
          /\ connUp' = [connUp EXCEPT ![p] = connected]
          /\ pc' = [pc EXCEPT ![p] = IF connected THEN "cmd_ensure" ELSE "exited"]
          /\ exit_status' = [exit_status EXCEPT ![p] = get_connection_exit(connected)]
          /\ open_conn' = [open_conn EXCEPT ![p] = connected]
          /\ UNCHANGED cliVars
    /\ UNCHANGED <<files, table_exists, migrations>>

\* the status command going on into migrate() after line 204
StatusEnsureFallsThrough(p) ==
    /\ pc[p] = "cmd_ensure"
    /\ \E up \in StillUp(p) :
          /\ connUp' = [connUp EXCEPT ![p] = up]
          /\ IF up
             THEN /\ table_exists' = TRUE
                  /\ pc' = [pc EXCEPT ![p] = "select"]
                  /\ UNCHANGED <<exit_status, open_conn, cliVars>>
             ELSE /\ pc' = [pc EXCEPT ![p] = "crashed"]
                  /\ exit_status' = [exit_status EXCEPT ![p] = ExitUncaught]
                  /\ open_conn' = open_conn
                  /\ UNCHANGED cliVars
                  /\ UNCHANGED table_exists
    /\ UNCHANGED <<files, migrations, now, runs, runLocals, applyLocals,
                   results, txn, attempts, outputs, changed, rerun>>

\* ensure_migration_table(cursor), line 204
StatusEnsure(p) ==
    /\ pc[p] = "cmd_ensure"
    /\ \E up \in StillUp(p) :
          /\ connUp' = [connUp EXCEPT ![p] = up]
          /\ IF up
             THEN /\ table_exists' = TRUE
                  /\ pc' = [pc EXCEPT ![p] = "cmd_status"]
                  /\ UNCHANGED <<exit_status, open_conn, cliVars>>
             ELSE /\ pc' = [pc EXCEPT ![p] = "crashed"]
                  /\ exit_status' = [exit_status EXCEPT ![p] = ExitUncaught]
                  /\ open_conn' = open_conn
                  /\ UNCHANGED cliVars
                  /\ UNCHANGED table_exists
    /\ UNCHANGED <<files, migrations, now, runs, runLocals, applyLocals,
                   results, txn, attempts, outputs, changed, rerun>>

\* show_status(cursor), cursor.close(), conn.close(), lines 205-207
StatusShow(p) ==
    /\ pc[p] = "cmd_status"
    /\ \E up \in StillUp(p) :
          /\ connUp' = [connUp EXCEPT ![p] = up]
          /\ IF up
             THEN /\ listing' = [listing EXCEPT ![p] = show_status(migrations)]
                  /\ stdout' = [stdout EXCEPT ![p] = Append(@, "status")]
                  /\ pc' = [pc EXCEPT ![p] = "done"]
                  /\ exit_status' = [exit_status EXCEPT ![p] = ExitOk]
                  /\ open_conn' = [open_conn EXCEPT ![p] = FALSE]
                  /\ UNCHANGED cliVars
             ELSE /\ pc' = [pc EXCEPT ![p] = "crashed"]
                  /\ exit_status' = [exit_status EXCEPT ![p] = ExitUncaught]
                  /\ open_conn' = open_conn
                  /\ UNCHANGED cliVars
                  /\ UNCHANGED outputs
    /\ UNCHANGED <<files, table_exists, migrations, now, runs, runLocals,
                   applyLocals, results, txn, attempts, changed, rerun>>

\* the versions an operator may name on the command line
VersionArgs == {SplitFirst(f, "_") : f \in FileNames}

\* rollback(version) carrying out the UPDATE of line 195 itself
rollback_updates(p) ==
    /\ ~Running(p)
    /\ runs < MaxRuns
    /\ runs' = runs + 1
    /\ now' = now + 1
    /\ FreshLocals(p)
    /\ \E version \in VersionArgs :
          /\ stdout' = [stdout EXCEPT ![p] = <<"rollback_instructions", version>>]
          /\ migrations' = [i \in 1..Len(migrations) |->
                              IF migrations[i].version = version
                              THEN [migrations[i] EXCEPT !.status = "rolled_back"]
                              ELSE migrations[i]]
    /\ changed' = FALSE
    /\ rerun' = [rerun EXCEPT ![p] = "no"]
    /\ pc' = [pc EXCEPT ![p] = "done"]
    /\ exit_status' = [exit_status EXCEPT ![p] = ExitOk]
    /\ open_conn' = [open_conn EXCEPT ![p] = FALSE]
    /\ UNCHANGED cliVars
    /\ UNCHANGED <<files, table_exists, connUp>>

\* python migrate.py rollback <version>: rollback(version), lines 190-195
rollback(p) ==
    /\ ~Running(p)
    /\ runs < MaxRuns
    /\ runs' = runs + 1
    /\ now' = now + 1
    /\ FreshLocals(p)
    /\ \E version \in VersionArgs :
          stdout' = [stdout EXCEPT ![p] = <<"rollback_instructions", version>>]
    /\ changed' = FALSE
    /\ rerun' = [rerun EXCEPT ![p] = "no"]
    /\ pc' = [pc EXCEPT ![p] = "done"]
    /\ exit_status' = [exit_status EXCEPT ![p] = ExitOk]
    /\ open_conn' = [open_conn EXCEPT ![p] = FALSE]
    /\ UNCHANGED cliVars
    /\ UNCHANGED <<files, table_exists, migrations, connUp>>

status(p) ==
    \/ StartStatus(p)
    \/ StatusEnsure(p)
    \/ StatusShow(p)

\* the command lines an operator may type: sys.argv[1:]
Argvs == {<<>>, <<"status">>, <<"status", "1">>, <<"rollback">>,
          <<"rollback", "1">>, <<"help">>, <<"migrate">>, <<"rollback", "1", "2">>}

\* the branch of lines 198-213 an argument list takes
Dispatch(argv) ==
    IF Len(argv) > 0
    THEN IF argv[1] = "status" THEN "status"
         ELSE IF argv[1] = "rollback" /\ Len(argv) + 1 > 2 THEN "rollback"
         ELSE "usage"
    ELSE "migrate"

\* any other command line: the usage text is printed and the script ends
\* (lines 210-211)
usage(p) ==
    /\ ~Running(p)
    /\ runs < MaxRuns
    /\ \E argv \in Argvs : Dispatch(argv) = "usage"
    /\ runs' = runs + 1
    /\ now' = now + 1
    /\ FreshLocals(p)
    /\ stdout' = [stdout EXCEPT ![p] = <<"usage">>]
    /\ changed' = FALSE
    /\ rerun' = [rerun EXCEPT ![p] = "no"]
    /\ pc' = [pc EXCEPT ![p] = "done"]
    /\ exit_status' = [exit_status EXCEPT ![p] = ExitOk]
    /\ open_conn' = [open_conn EXCEPT ![p] = FALSE]
    /\ UNCHANGED cliVars
    /\ UNCHANGED <<files, table_exists, migrations, connUp>>

(***************************************************************************)
(* What happens around the tool, between its invocations.                  *)
(***************************************************************************)
\* a developer adds a script to the migrations directory
AddFile ==
    /\ Quiescent
    /\ runs < MaxRuns
    /\ Cardinality(DOMAIN files) < MaxFiles
    /\ \E f \in FileNames \ DOMAIN files, c \in Contents :
          files' = [g \in DOMAIN files \cup {f} |-> IF g = f THEN c ELSE files[g]]
    /\ changed' = TRUE
    /\ UNCHANGED <<table_exists, migrations, now, runs, pc, connUp, runLocals,
                   applyLocals, results, txn, attempts, outputs, rerun,
                   exit_status, open_conn, cliVars>>

\* a developer edits a script that is already there
EditFile ==
    /\ Quiescent
    /\ runs < MaxRuns
    /\ \E f \in DOMAIN files : \E c \in Contents \ {files[f]} :
          files' = [files EXCEPT ![f] = c]
    /\ changed' = TRUE
    /\ UNCHANGED <<table_exists, migrations, now, runs, pc, connUp, runLocals,
                   applyLocals, results, txn, attempts, outputs, rerun,
                   exit_status, open_conn, cliVars>>

\* the operator follows rollback()'s instructions (line 195) by hand:
\* UPDATE _migrations SET status = ... WHERE version = ...
ManualUpdate ==
    /\ Quiescent
    /\ runs < MaxRuns
    /\ \E k \in 1..Len(migrations), s \in {"rolled_back", "pending"} :
          /\ migrations[k].status # s
          /\ migrations' = [i \in 1..Len(migrations) |->
                              IF migrations[i].version = migrations[k].version
                              THEN [migrations[i] EXCEPT !.status = s]
                              ELSE migrations[i]]
    /\ changed' = TRUE
    /\ UNCHANGED <<files, table_exists, now, runs, pc, connUp, runLocals,
                   applyLocals, results, txn, attempts, outputs, rerun,
                   exit_status, open_conn, cliVars>>

Next ==
    \/ \E p \in Main : migrate(p)
    \/ \E p \in Main : status(p)
    \/ \E p \in Main : rollback(p)
    \/ \E p \in Main : usage(p)
    \/ AddFile
    \/ EditFile
    \/ ManualUpdate

Spec == Init /\ [][Next]_vars

(***************************************************************************)
(* Two invocations of migrate() at the same time against one database and  *)
(* one migrations directory, which holds its scripts from the start.       *)
(***************************************************************************)
ContentC == << <<"SQL">> >>

ConcurrentDirs ==
    {[f \in {File_1_a} |-> ContentA],
     [f \in {File_1_a, File_2_b} |-> ContentC]}

InitConcurrent ==
    /\ files \in ConcurrentDirs
    /\ table_exists = FALSE
    /\ migrations = <<>>
    /\ now = 0
    /\ runs = 0
    /\ pc = [p \in Procs |-> "idle"]
    /\ connUp = [p \in Procs |-> FALSE]
    /\ applied = [p \in Procs |-> {}]
    /\ pending = [p \in Procs |-> <<>>]
    /\ to_apply = [p \in Procs |-> <<>>]
    /\ idx = [p \in Procs |-> 0]
    /\ statements = [p \in Procs |-> <<>>]
    /\ si = [p \in Procs |-> 0]
    /\ start_time = [p \in Procs |-> 0]
    /\ executed = [p \in Procs |-> <<>>]
    /\ results = [p \in Procs |-> <<>>]
    /\ txn = [p \in Procs |-> <<>>]
    /\ attempts = [p \in Procs |-> <<>>]
    /\ stdout = [p \in Procs |-> <<>>]
    /\ listing = [p \in Procs |-> <<>>]
    /\ changed = FALSE
    /\ rerun = [p \in Procs |-> "no"]
    /\ exit_status = [p \in Procs |-> NoExit]
    /\ open_conn = [p \in Procs |-> FALSE]
    /\ CliIdle

NextConcurrent == \E p \in Procs : migrate(p)

SpecConcurrent == InitConcurrent /\ [][NextConcurrent]_vars

(***************************************************************************)
(* The tool before its first invocation, whatever the directory holds.     *)
(***************************************************************************)
NoInvocationYet ==
    /\ table_exists = FALSE
    /\ migrations = <<>>
    /\ now = 0
    /\ runs = 0
    /\ pc = [p \in Procs |-> "idle"]
    /\ connUp = [p \in Procs |-> FALSE]
    /\ applied = [p \in Procs |-> {}]
    /\ pending = [p \in Procs |-> <<>>]
    /\ to_apply = [p \in Procs |-> <<>>]
    /\ idx = [p \in Procs |-> 0]
    /\ statements = [p \in Procs |-> <<>>]
    /\ si = [p \in Procs |-> 0]
    /\ start_time = [p \in Procs |-> 0]
    /\ executed = [p \in Procs |-> <<>>]
    /\ results = [p \in Procs |-> <<>>]
    /\ txn = [p \in Procs |-> <<>>]
    /\ attempts = [p \in Procs |-> <<>>]
    /\ stdout = [p \in Procs |-> <<>>]
    /\ listing = [p \in Procs |-> <<>>]
    /\ changed = FALSE
    /\ rerun = [p \in Procs |-> "no"]
    /\ exit_status = [p \in Procs |-> NoExit]
    /\ open_conn = [p \in Procs |-> FALSE]

(***************************************************************************)
(* migrate() on a directory that holds one script of any content: up to    *)
(* MaxFragments fragments between ';', each of up to MaxTokens tokens.     *)
(***************************************************************************)
Tokens == {"SQL", "BCMT", "LCMT", "WS"}

Fragments == UNION {[1..n -> Tokens] : n \in 0..MaxTokens}

ScriptContents == UNION {[1..n -> Fragments] : n \in 1..MaxFragments}

InitSplit ==
    /\ files \in {[f \in {File_1_a} |-> c] : c \in ScriptContents}
    /\ NoInvocationYet
    /\ CliIdle

NextSplit == \E p \in Main : migrate(p)

SpecSplit == InitSplit /\ [][NextSplit]_vars

(***************************************************************************)
(* migrate() on a directory that holds up to MaxFiles files of any of the  *)
(* names below, each with one statement.                                   *)
(***************************************************************************)
File_1a_f  == <<"1", "a", "_", "f", ".", "s", "q", "l">>
File_2_e   == <<"2", "-", "e", ".", "s", "q", "l">>
File_7     == <<"7", ".", "s", "q", "l">>
File_3_txt == <<"3", "_", "g", ".", "t", "x", "t">>

DirectoryNames ==
    {File_1_a, File_10_c, File_x, File_1a_f, File_2_e, File_7, File_3_txt}

InitDiscovery ==
    /\ files \in {[f \in names |-> ContentC] :
                    names \in {n \in SUBSET DirectoryNames : Cardinality(n) <= MaxFiles}}
    /\ NoInvocationYet
    /\ CliIdle

NextDiscovery == \E p \in Main : migrate(p)

SpecDiscovery == InitDiscovery /\ [][NextDiscovery]_vars


(***************************************************************************)
(* Vocabulary of the properties.                                           *)
(***************************************************************************)
Rows(table) == {table[i] : i \in 1..Len(table)}

StatusOf(table, v) == {r.status : r \in {q \in Rows(table) : q.version = v}}

Elems(s) == {s[i] : i \in 1..Len(s)}

\* the integer a version made of digits denotes
RECURSIVE VersionNum(_)
VersionNum(v) ==
    IF v = <<>> THEN 0
    ELSE VersionNum(SubSeq(v, 1, Len(v) - 1)) * 10 + (Ord(v[Len(v)]) - Ord("0"))

\* the indices of 'statements' that line 93 lets through, ascending
Executable(stmts) == {i \in 1..Len(stmts) : ShouldExecute(stmts[i])}

\* the statement indices of an 'executed' log, in order
StmtsOf(log) == [i \in 1..Len(log) |-> log[i].stmt]

\* the ascending enumeration of a set of indices
RECURSIVE Ascending(_)
Ascending(S) ==
    IF S = {} THEN <<>>
    ELSE LET m == CHOOSE x \in S : \A y \in S : x <= y
         IN  <<m>> \o Ascending(S \ {m})

IsPrefix(a, b) == Len(a) <= Len(b) /\ a = SubSeq(b, 1, Len(a))

Swallowed(e) == Contains(e, "Duplicate") \/ Contains(e, "already exists")
Fatal(e) == e # NoError /\ ~Swallowed(e)

\* no two scripts the run of p discovered share a version
DistinctVersions(p) ==
    \A i, j \in 1..Len(pending[p]) :
        i # j => pending[p][i].version # pending[p][j].version

\* an attempt of p is under way or has just ended
InAttempt(p) == pc[p] \in {"stmt", "handler", "commit"}

(***************************************************************************)
(* C1  Skip-applied: a script whose version has a tracking row with status *)
(* 'applied' when the run reads the table is not in the run's apply set,   *)
(* and a run executes scripts of its apply set only - also when the file   *)
(* no longer has the checksum recorded in that row.                        *)
(***************************************************************************)
SkipApplied ==
    /\ [][\A p \in Procs :
            (pc[p] = "select" /\ pc'[p] \in {"apply", "status"}) =>
               \A i \in 1..Len(to_apply'[p]) :
                  "applied" \notin StatusOf(migrations, to_apply'[p][i].version)]_vars
    /\ [](\A p \in Procs : IsPrefix(attempts[p], to_apply[p]))

\* a run ended without executing a script whose row is 'applied' and whose
\* file was edited after it was applied
SkipAppliedWitness ==
    \E p \in Procs : \E f \in DOMAIN files :
        /\ pc[p] = "done"
        /\ "no_pending" \in Elems(stdout[p])
        /\ attempts[p] = <<>>
        /\ \E r \in Rows(migrations) :
              /\ r.version = SplitFirst(f, "_")
              /\ r.status = "applied"
              /\ r.checksum # get_file_checksum(files[f])

(***************************************************************************)
(* C2  Order invariant: when the discovered scripts have pairwise distinct *)
(* versions, the apply attempts of a run are in strictly ascending order   *)
(* of version.                                                             *)
(***************************************************************************)
OrderInvariant ==
    \A p \in Procs :
        (\A i, j \in 1..Len(pending[p]) :
            i # j => VersionNum(pending[p][i].version) # VersionNum(pending[p][j].version))
        => \A i, j \in 1..Len(attempts[p]) :
              i < j => VersionNum(attempts[p][i].version) < VersionNum(attempts[p][j].version)


(***************************************************************************)
(* C3  Halt-on-failure.                                                    *)
(***************************************************************************)
\* the statuses the listing of p shows for version v (none: v is absent)
Listed(p, v) == {r.status : r \in {q \in Elems(listing[p]) : q.version = v}}

\* the run of p stopped at a failed script and printed its listing
HaltedRun(p) ==
    /\ pc[p] = "done"
    /\ results[p] # <<>>
    /\ ~Last(results[p])

\* nothing is attempted after an attempt that failed
NoAttemptAfterFailure(p) ==
    \A k \in 1..Len(results[p]) : ~results[p][k] => Len(attempts[p]) = k

\* C3 as claimed: if script k of the apply set fails, no later script is
\* attempted in the run, and the final listing shows k as 'failed' and every
\* script after it (of another version) as absent or 'pending'.
HaltOnFailureOriginal ==
    \A p \in Procs :
        /\ NoAttemptAfterFailure(p)
        /\ HaltedRun(p) =>
              /\ Listed(p, Last(attempts[p]).version) = {"failed"}
              /\ \A j \in (Len(attempts[p]) + 1)..Len(to_apply[p]) :
                    to_apply[p][j].version # Last(attempts[p]).version =>
                       Listed(p, to_apply[p][j].version) \subseteq {"pending"}

\* C3 as amended: if script k of the apply set fails, no later script is
\* attempted in the run, and the final listing shows k as 'failed' and no
\* script after it as 'applied': each is absent, 'pending', 'failed' or
\* 'rolled_back'.
HaltOnFailure ==
    \A p \in Procs :
        /\ NoAttemptAfterFailure(p)
        /\ HaltedRun(p) =>
              /\ Listed(p, Last(attempts[p]).version) = {"failed"}
              /\ \A j \in (Len(attempts[p]) + 1)..Len(to_apply[p]) :
                    Listed(p, to_apply[p][j].version)
                        \subseteq {"pending", "failed", "rolled_back"}

\* a run that stopped at a failed script with scripts left in its apply set
HaltOnFailureWitness ==
    \E p \in Procs :
        /\ HaltedRun(p)
        /\ Len(attempts[p]) < Len(to_apply[p])

(***************************************************************************)
(* C4  Idempotent re-run.                                                  *)
(***************************************************************************)
\* C4 as claimed: a run that directly follows a completed run, with the
\* same files and table, executes no script.
IdempotentRerunOriginal ==
    \A p \in Procs : rerun[p] \in {"clean", "failed"} => attempts[p] = <<>>

\* C4 as amended: a run that directly follows a run that completed without
\* a failed script, with the same files and table, executes no script,
\* changes no row and reports that nothing is pending.
IdempotentRerun ==
    /\ [](\A p \in Procs :
            rerun[p] = "clean" =>
               /\ attempts[p] = <<>>
               /\ pc[p] \in {"status", "done"} => "no_pending" \in Elems(stdout[p]))
    /\ [][\A p \in Procs :
            (rerun[p] = "clean" /\ Running(p)) => migrations' = migrations]_vars

\* the second of two runs in succession ended, after a first run that
\* applied scripts
IdempotentRerunWitness ==
    \E p \in Procs :
        /\ rerun[p] = "clean"
        /\ pc[p] = "done"
        /\ \E r \in Rows(migrations) : r.status = "applied"
        /\ \A m \in Elems(pending[p]) : "applied" \in StatusOf(migrations, m.version)
        /\ pending[p] # <<>>

(***************************************************************************)
(* C5  Idempotency-marker tolerance: in an attempt in which a statement    *)
(* raised an error containing 'Duplicate' or 'already exists', the         *)
(* statements are executed in order with none left out, the except clause  *)
(* is not entered for that error, and if no statement raised another error *)
(* the attempt returns True and the row of the version becomes 'applied'.  *)
(***************************************************************************)
HasSwallowed(p) == \E i \in 1..Len(executed[p]) : Swallowed(executed[p][i].error)
NoFatal(p) == \A i \in 1..Len(executed[p]) : ~Fatal(executed[p][i].error)

MarkerTolerance ==
    /\ [](\A p \in Procs :
            (InAttempt(p) /\ HasSwallowed(p)) =>
               /\ IsPrefix(StmtsOf(executed[p]),
                           Ascending(Executable(statements[p])))
               /\ (pc[p] = "handler" /\ connUp[p]) => ~NoFatal(p)
               /\ (pc[p] = "commit" /\ NoFatal(p)) =>
                     /\ StmtsOf(executed[p]) = Ascending(Executable(statements[p]))
                     /\ Len(results[p]) = Len(attempts[p])
                     /\ Last(results[p])
                     /\ Len(txn[p]) = 1
                     /\ txn[p][1].kind = "applied"
                     /\ txn[p][1].version = Last(attempts[p]).version)
    /\ [][\A p \in Procs :
            (/\ pc[p] = "commit"
             /\ HasSwallowed(p)
             /\ NoFatal(p)
             /\ pc'[p] \in {"apply", "status"})
            => StatusOf(migrations', Last(attempts[p]).version) = {"applied"}]_vars

\* an attempt returned True after an 'already exists' error that was
\* followed by another statement
MarkerToleranceWitness ==
    \E p \in Procs :
        /\ pc[p] = "commit"
        /\ Len(executed[p]) >= 2
        /\ Contains(executed[p][1].error, "already exists")
        /\ Last(results[p])

(***************************************************************************)
(* C6  Abort on other errors: a statement error without a marker is the    *)
(* last statement the attempt executes, and the attempt does not return    *)
(* True: it returns False or leaves as an exception.                       *)
(***************************************************************************)
AbortOnOtherError ==
    \A p \in Procs : \A i \in 1..Len(executed[p]) :
        Fatal(executed[p][i].error) =>
           /\ i = Len(executed[p])
           /\ pc[p] \notin {"stmt", "apply"}
           /\ Len(results[p]) = Len(attempts[p]) => ~Last(results[p])

\* an attempt returned False with a statement of the script left unexecuted
AbortOnOtherErrorWitness ==
    \E p \in Procs :
        /\ pc[p] = "commit"
        /\ executed[p] # <<>>
        /\ Last(executed[p]).error = MsgOther
        /\ Len(executed[p]) < Cardinality(Executable(statements[p]))
        /\ ~Last(results[p])

(***************************************************************************)
(* C7  Failure record.                                                     *)
(***************************************************************************)
\* a statement of the last attempt of p raised an error that is not ignored
AttemptFailed(p) == executed[p] # <<>> /\ Fatal(Last(executed[p]).error)

\* C7 as claimed: every failed attempt ends with the row of its version
\* 'failed' and with False returned to the run loop; the error never leaves
\* apply_migration as an exception.
FailureRecordOriginal ==
    \A p \in Procs :
        (AttemptFailed(p) /\ pc[p] \in {"status", "done", "crashed"} /\ ~changed) =>
           /\ Len(results[p]) = Len(attempts[p])
           /\ ~Last(results[p])
           /\ StatusOf(migrations, Last(attempts[p]).version) = {"failed"}

\* C7 as amended: a failed attempt whose 'failed' upsert and commit are
\* carried out ends with the row of its version 'failed' (inserted, or the
\* existing row updated) and with False returned; a failed attempt leaves
\* as an exception, without the row, only when the upsert or the commit
\* raise in turn, which is when the connection is lost.
FailureRecord ==
    \A p \in Procs :
        AttemptFailed(p) =>
           /\ pc[p] = "commit" =>
                 /\ Len(results[p]) = Len(attempts[p])
                 /\ ~Last(results[p])
                 /\ Len(txn[p]) = 1
                 /\ txn[p][1].kind = "failed"
           /\ (pc[p] \in {"status", "done"} /\ ~changed) =>
                 /\ Len(results[p]) = Len(attempts[p])
                 /\ ~Last(results[p])
                 /\ StatusOf(migrations, Last(attempts[p]).version) = {"failed"}
           /\ pc[p] = "crashed" => ~connUp[p]

\* a failed attempt was recorded over the row an earlier run had left: the
\* row is 'failed' and still holds the checksum of the earlier success
FailureRecordWitness ==
    \E p \in Procs :
        /\ AttemptFailed(p)
        /\ pc[p] = "status"
        /\ connUp[p]
        /\ \E r \in Rows(migrations) :
              /\ r.version = Last(attempts[p]).version
              /\ r.status = "failed"
              /\ r.checksum # NULL

(***************************************************************************)
(* C8  Success record: right after a script was applied successfully and   *)
(* committed (in a run whose scripts have distinct versions), the row of   *)
(* its version has status 'applied', the checksum of the script, the       *)
(* elapsed time, the executing identity and the current timestamp -        *)
(* whether the row was inserted or an existing row overwritten.            *)
(***************************************************************************)
SuccessRecord ==
    \A p \in Procs :
        (/\ pc[p] \in {"apply", "status"}
         /\ DistinctVersions(p)
         /\ results[p] # <<>>
         /\ Len(results[p]) = Len(attempts[p])
         /\ Last(results[p]))
        => \E r \in Rows(migrations) :
              /\ r.version = Last(attempts[p]).version
              /\ r.status = "applied"
              /\ r.checksum = get_file_checksum(files[Last(attempts[p]).filepath])
              /\ r.execution_time_ms = now - start_time[p]
              /\ r.applied_by = DbUser
              /\ r.applied_at = now

(***************************************************************************)
(* C9  Selection: the apply set is exactly the discovered scripts whose    *)
(* version has no row with status 'applied' in the table the run reads, in *)
(* the order of discovery.                                                 *)
(***************************************************************************)
Selection ==
    [][\A p \in Procs :
         (pc[p] = "select" /\ pc'[p] \in {"apply", "status"}) =>
            /\ \A m \in Elems(pending'[p]) :
                  m \in Elems(to_apply'[p])
                     <=> "applied" \notin StatusOf(migrations, m.version)
            /\ Elems(to_apply'[p]) \subseteq Elems(pending'[p])
            /\ \A f \in DOMAIN files :
                  (EndsWith(f, DotSql) /\ IsDigit(f[1]))
                     <=> \E m \in Elems(pending'[p]) : m.filepath = f
            /\ \A i, j \in 1..Len(to_apply'[p]) :
                  i # j => to_apply'[p][i] # to_apply'[p][j]]_vars

\* a run selected a script whose row is 'rolled_back' and left out a script
\* whose row is 'applied'
SelectionWitness ==
    \E p \in Procs :
        /\ pc[p] = "apply"
        /\ \E m \in Elems(to_apply[p]) :
              StatusOf(migrations, m.version) \cap {"rolled_back", "pending", "failed"} # {}
        /\ \E m \in Elems(pending[p]) : m \notin Elems(to_apply[p])

(***************************************************************************)
(* C10  Status transitions.                                                *)
(***************************************************************************)
\* a step of a command of the tool (the steps around it leave pc alone)
ToolStep == pc' # pc

\* C10 as claimed: every status change the tool makes to a row (in a run
\* whose scripts have distinct versions) is pending -> applied or
\* pending -> failed, and no command writes 'rolled_back'.
StatusTransitionsOriginal ==
    [][(ToolStep /\ \A p \in Procs : DistinctVersions(p)) =>
          \A r \in Rows(migrations) : \A q \in Rows(migrations') :
             (r.version = q.version /\ r.status # q.status) =>
                /\ r.status = "pending"
                /\ q.status \in {"applied", "failed"}]_vars

\* C10 as amended: every row the tool inserts or updates gets the status
\* 'applied' or 'failed', whatever status the row had before (none,
\* 'pending', 'failed', 'rolled_back' or 'applied'), so a retried script
\* moves failed -> applied; no command writes 'rolled_back' or 'pending'.
StatusTransitions ==
    [][ToolStep =>
          \A q \in Rows(migrations') :
             q \notin Rows(migrations) => q.status \in {"applied", "failed"}]_vars

\* a row that was inserted as 'failed' and later updated to 'applied'
StatusTransitionsWitness ==
    \E r \in Rows(migrations) : r.status = "applied" /\ r.checksum = NULL

(***************************************************************************)
(* C11  Unique version: the tracking table never holds two rows of one     *)
(* version, and committing the attempt of a script whose version has a row *)
(* adds no row: it sets the status of that row to the attempt's outcome.   *)
(***************************************************************************)
UniqueVersion ==
    /\ [](\A i, j \in 1..Len(migrations) :
            i # j => migrations[i].version # migrations[j].version)
    /\ [][\A p \in Procs :
            (/\ pc[p] = "commit"
             /\ pc'[p] \in {"apply", "status"}
             /\ HasRow(migrations, Last(attempts[p]).version))
            => /\ Len(migrations') = Len(migrations)
               /\ StatusOf(migrations', Last(attempts[p]).version) =
                     {IF Last(results[p]) THEN "applied" ELSE "failed"}]_vars

\* a run applied two scripts of one version and the table holds one row
UniqueVersionWitness ==
    \E p \in Procs :
        /\ pc[p] = "done"
        /\ Len(attempts[p]) = 2
        /\ Last(results[p])
        /\ Len(migrations) = 1

(***************************************************************************)
(* C12  Independent commit and recovery.                                   *)
(***************************************************************************)
\* how many attempts of the run of p have been committed (line 175)
Committed(p) ==
    IF \/ pc[p] = "commit"
       \/ /\ pc[p] = "crashed"
          /\ results[p] # <<>>
          /\ Len(results[p]) = Len(attempts[p])
          /\ "complete" \notin Elems(stdout[p])
    THEN Len(results[p]) - 1
    ELSE Len(results[p])

\* the rows of the scripts the run of p applied and committed are 'applied'
AppliedPersist(p) ==
    \A k \in 1..Committed(p) :
        results[p][k] => StatusOf(migrations, attempts[p][k].version) = {"applied"}

\* the run of p skips exactly the discovered scripts whose row is
\* 'applied' and starts at the first discovered script that is not
StartsAtFirstUnapplied(p) ==
    /\ (pc[p] = "select" /\ pc'[p] \in {"apply", "status"}) =>
          to_apply'[p] = SelectSeq(pending'[p],
                             LAMBDA m : "applied" \notin StatusOf(migrations, m.version))
    /\ (pc[p] = "apply" /\ pc'[p] = "stmt" /\ attempts[p] = <<>>) =>
          \E i \in 1..Len(pending[p]) :
             /\ attempts'[p] = <<pending[p][i]>>
             /\ "applied" \notin StatusOf(migrations, pending[p][i].version)
             /\ \A j \in 1..(i - 1) :
                   "applied" \in StatusOf(migrations, pending[p][j].version)

\* C12: while nothing is changed by hand, the 'applied' rows of the scripts
\* a run committed persist when the run stops at a failed script or is ended
\* by a fatal error, and a run skips exactly the scripts marked 'applied'
\* and starts at the first discovered script that is not.
IndependentCommit ==
    /\ [](\A p \in Procs : ~changed => AppliedPersist(p))
    /\ [][\A p \in Procs : StartsAtFirstUnapplied(p)]_vars

\* the same for runs whose discovered scripts have distinct versions
IndependentCommitDistinct ==
    /\ [](\A p \in Procs : (~changed /\ DistinctVersions(p)) => AppliedPersist(p))
    /\ [][\A p \in Procs : StartsAtFirstUnapplied(p)]_vars

(***************************************************************************)
(* C13  Concurrent runs: with two runs at the same time, the table never   *)
(* holds two rows of one version; a run that commits its attempt of a      *)
(* version the other run has attempted too leaves exactly one row of that  *)
(* version, with the status of its own attempt (the last writer wins); and *)
(* on a usable connection the upsert of an attempt is carried out, never   *)
(* rejected: the attempt goes on to its commit.                            *)
(***************************************************************************)
\* another run has attempted the version p is attempting
AlsoAttempted(p) ==
    \E q \in Procs \ {p} : \E k \in 1..Len(attempts[q]) :
        attempts[q][k].version = Last(attempts[p]).version

RowsOf(table, v) == {i \in 1..Len(table) : table[i].version = v}

ConcurrentRuns ==
    /\ [](\A v \in {migrations[i].version : i \in 1..Len(migrations)} :
            Cardinality(RowsOf(migrations, v)) = 1)
    /\ [][\A p \in Procs :
            (/\ pc[p] = "commit"
             /\ pc'[p] \in {"apply", "status"}
             /\ AlsoAttempted(p))
            => /\ Cardinality(RowsOf(migrations', Last(attempts[p]).version)) = 1
               /\ StatusOf(migrations', Last(attempts[p]).version) =
                     {IF Last(results[p]) THEN "applied" ELSE "failed"}]_vars
    /\ [][\A p \in Procs :
            (/\ \/ pc[p] = "stmt" /\ si[p] > Len(statements[p])
                \/ pc[p] = "handler"
             /\ pc'[p] # pc[p]
             /\ connUp'[p])
            => /\ pc'[p] = "commit"
               /\ Len(txn'[p]) = 1
               /\ Last(results'[p]) = (pc[p] = "stmt")]_vars

\* double-apply: both runs executed the script of one version with success,
\* both ended, and the table holds one row of that version
ConcurrentRunsWitness ==
    /\ \A p \in Procs : pc[p] = "done" /\ attempts[p] # <<>> /\ results[p][1]
    /\ attempts["r1"][1].version = attempts["r2"][1].version
    /\ Cardinality(RowsOf(migrations, attempts["r1"][1].version)) = 1

(***************************************************************************)
(* C14  All-success run.                                                   *)
(***************************************************************************)
\* the first invocation of the tool was migrate(), so it started on an
\* empty table; it ended, and every attempt it made returned True
AllSucceeded(p) ==
    /\ runs = 1
    /\ pc[p] = "done"
    /\ "migrate" \in Elems(stdout[p])
    /\ ~changed
    /\ \A k \in 1..Len(results[p]) : results[p][k]

\* the discovered scripts have pairwise distinct version numbers
DistinctNumbers(p) ==
    \A i, j \in 1..Len(pending[p]) :
        i # j => VersionNum(pending[p][i].version) # VersionNum(pending[p][j].version)

\* each discovered script was attempted exactly once
EachOnce(p) ==
    /\ Len(attempts[p]) = Len(pending[p])
    /\ Elems(attempts[p]) = Elems(pending[p])

\* the listing has exactly one row per discovered script, each 'applied'
\* with a timestamp
ListedApplied(p) ==
    /\ Len(listing[p]) = Len(pending[p])
    /\ \A m \in Elems(pending[p]) :
          \E i \in 1..Len(listing[p]) :
             /\ listing[p][i].version = m.version
             /\ listing[p][i].status = "applied"
             /\ listing[p][i].applied_at # NULL
             /\ \A j \in 1..Len(listing[p]) :
                   listing[p][j].version = m.version => j = i

\* C14: a first run on an empty table in which every script (of distinct
\* version numbers) executes without error attempts each script exactly
\* once, in ascending order of version, none fails, and the listing has one
\* 'applied' row with a timestamp per script.
AllSuccessRun ==
    \A p \in Procs :
        (AllSucceeded(p) /\ DistinctNumbers(p)) =>
           /\ EachOnce(p)
           /\ \A i, j \in 1..Len(attempts[p]) :
                 i < j => VersionNum(attempts[p][i].version)
                             < VersionNum(attempts[p][j].version)
           /\ Len(results[p]) = Len(attempts[p])
           /\ "stopping" \notin Elems(stdout[p])
           /\ ListedApplied(p)

(***************************************************************************)
(* C15  Unconditional status listing.                                      *)
(***************************************************************************)
\* the invocation of p is (or was) a migrate() run
IsMigrateRun(p) == "migrate" \in Elems(stdout[p])

\* the listing of p shows every row of the table, and nothing else
FullListing(p) ==
    /\ Len(listing[p]) = Len(migrations)
    /\ \A r \in Rows(migrations) :
          \E i \in 1..Len(listing[p]) :
             /\ listing[p][i].version = r.version
             /\ listing[p][i].name = r.name
             /\ listing[p][i].status = r.status
             /\ listing[p][i].applied_at = r.applied_at

\* C15 as claimed: every migrate() run that obtained a connection and has
\* ended has printed the full status listing.
StatusListingOriginal ==
    \A p \in Procs :
        (IsMigrateRun(p) /\ pc[p] \in {"done", "crashed"} /\ ~changed) =>
           /\ "status" \in Elems(stdout[p])
           /\ FullListing(p)

\* C15 as amended: a migrate() run that is not ended by an exception prints
\* the full status listing last, whether it had nothing to apply, applied
\* every script or stopped at a failed script: each of the three goes on to
\* show_status; a run prints no listing only when an exception ended it,
\* which is when its connection was lost.
StatusListing ==
    /\ [](\A p \in Procs :
            /\ (IsMigrateRun(p) /\ pc[p] = "done") =>
                  /\ Last(stdout[p]) = "status"
                  /\ ~changed => FullListing(p)
            /\ pc[p] = "crashed" => ~connUp[p])
    /\ [][\A p \in Procs :
            (pc'[p] # pc[p] /\ connUp'[p]) =>
               /\ (pc[p] = "select" /\ to_apply'[p] = <<>>) => pc'[p] = "status"
               /\ (pc[p] = "commit" /\ ~Last(results[p])) => pc'[p] = "status"
               /\ (pc[p] = "commit" /\ idx[p] = Len(to_apply[p])) => pc'[p] = "status"
               /\ pc[p] = "status" =>
                     /\ pc'[p] = "done"
                     /\ Last(stdout'[p]) = "status"]_vars

\* a run that stopped at a failed script ended with a listing that shows a
\* row of each status 'applied' and 'failed'
StatusListingWitness ==
    \E p \in Procs :
        /\ pc[p] = "done"
        /\ "stopping" \in Elems(stdout[p])
        /\ Last(stdout[p]) = "status"
        /\ {"applied", "failed"} \subseteq {listing[p][i].status : i \in 1..Len(listing[p])}

(***************************************************************************)
(* C16  Bootstrapping: in migrate() and in the status command the table    *)
(* exists before the applied versions are read, before a script is read or *)
(* executed and before the status is displayed; and the ensure step on an  *)
(* existing table does not fail on a usable connection and changes no row. *)
(***************************************************************************)
\* p is at a step that reads the table, reads or executes a script, or
\* displays the status, or it has done so
PastEnsure(p) ==
    \/ pc[p] \in {"select", "apply", "stmt", "handler", "commit", "status",
                  "cmd_status"}
    \/ attempts[p] # <<>>
    \/ "status" \in Elems(stdout[p])

Bootstrapping ==
    /\ [](\A p \in Procs : PastEnsure(p) => table_exists)
    /\ [][\A p \in Procs :
            (pc[p] \in {"ensure", "cmd_ensure"} /\ pc'[p] # pc[p]) =>
               /\ migrations' = migrations
               /\ connUp'[p] => table_exists'
               /\ (table_exists /\ connUp'[p]) =>
                     pc'[p] = (IF pc[p] = "ensure" THEN "select" ELSE "cmd_status")]_vars
    /\ [][\A p \in Procs :
            (pc[p] \in {"idle", "done", "crashed", "exited"} /\ pc'[p] # pc[p]) =>
               pc'[p] \in {"ensure", "cmd_ensure", "exited", "done"}]_vars

\* the ensure step was repeated on a table that holds rows, by a later
\* invocation that went on to read or display it
BootstrappingWitness ==
    \E p \in Procs :
        /\ runs = 2
        /\ pc[p] \in {"select", "cmd_status"}
        /\ migrations # <<>>

(***************************************************************************)
(* C17  Statement splitting: an attempt executes, in file order, every     *)
(* fragment of the script that is neither empty nor purely a comment, and  *)
(* only those.                                                             *)
(***************************************************************************)
\* the fragment holds nothing but whitespace
IsEmptyFragment(f) == \A i \in 1..Len(f) : f[i] = "WS"

\* the fragment holds comments (and whitespace) and no statement text
IsPureComment(f) ==
    /\ ~IsEmptyFragment(f)
    /\ \A i \in 1..Len(f) : f[i] \in {"BCMT", "LCMT", "WS"}

\* the fragments of a script that are to be executed, in file order
ToExecute(content) ==
    SelectSeq(content, LAMBDA f : ~IsEmptyFragment(f) /\ ~IsPureComment(f))

\* the fragments the attempt of p has handed to cursor.execute, in order
ExecutedFragments(p) ==
    [i \in 1..Len(executed[p]) |-> statements[p][executed[p][i].stmt]]

StatementSplitting ==
    \A p \in Procs :
        InAttempt(p) =>
           LET kept == ToExecute(files[Last(attempts[p]).filepath])
               want == [i \in 1..Len(kept) |-> Strip(kept[i])]
           IN  /\ IsPrefix(ExecutedFragments(p), want)
               /\ (pc[p] = "commit" /\ Last(results[p])) =>
                     ExecutedFragments(p) = want

(***************************************************************************)
(* C18  Discovery: the discovered scripts are exactly the files named      *)
(* <digits><non-digit separator><description>.sql, and the version of each *)
(* is the leading run of digits of its name.                               *)
(***************************************************************************)
\* the leading run of digits of a name
RECURSIVE LeadingDigits(_)
LeadingDigits(name) ==
    IF name # <<>> /\ IsDigit(Head(name))
    THEN <<Head(name)>> \o LeadingDigits(Tail(name))
    ELSE <<>>

\* <digits><non-digit separator><description>.sql
MatchesPattern(name) ==
    /\ EndsWith(name, DotSql)
    /\ LeadingDigits(name) # <<>>
    /\ Len(LeadingDigits(name)) < Len(name) - Len(DotSql)

Discovery ==
    [][\A p \in Procs :
         (pc[p] = "select" /\ pc'[p] \in {"apply", "status"}) =>
            /\ {m.filepath : m \in Elems(pending'[p])} =
                  {f \in DOMAIN files : MatchesPattern(f)}
            /\ Len(pending'[p]) = Cardinality(Elems(pending'[p]))
            /\ \A m \in Elems(pending'[p]) :
                  m.version = LeadingDigits(m.filepath)]_vars

(***************************************************************************)
(* C19  Connectivity failure at startup: an invocation goes past           *)
(* get_connection() only with a connection; without one the process ends   *)
(* at once with a non-zero exit status, and that step creates no table,    *)
(* executes no script and writes no row.                                   *)
(***************************************************************************)
ConnectFailure ==
    /\ [](\A p \in Procs :
            pc[p] = "exited" =>
               /\ exit_status[p] \notin {NoExit, 0}
               /\ ~connUp[p]
               /\ attempts[p] = <<>>
               /\ executed[p] = <<>>
               /\ txn[p] = <<>>
               /\ listing[p] = <<>>)
    /\ [][\A p \in Procs :
            (~Running(p) /\ pc'[p] # pc[p]) =>
               /\ pc'[p] \in {"ensure", "cmd_ensure"} => connUp'[p]
               /\ pc'[p] = "exited" =>
                     /\ table_exists' = table_exists
                     /\ migrations' = migrations]_vars
    /\ [][\A p \in Procs :
            (pc[p] = "exited" /\ pc'[p] = "exited") => exit_status'[p] = exit_status[p]]_vars

\* a later invocation could not connect and ended, with the rows an earlier
\* run wrote still in the table
ConnectFailureWitness ==
    \E p \in Procs :
        /\ pc[p] = "exited"
        /\ runs = 2
        /\ migrations # <<>>

(***************************************************************************)
(* C20  The status command only prints the status table: no step of it     *)
(* reads or executes a script or changes a row of the table, it goes from  *)
(* the ensure step to the display and ends, and what it prints is the      *)
(* table.                                                                  *)
(***************************************************************************)
\* the invocation of p is the status command
InStatusCommand(p) == pc[p] \in {"cmd_ensure", "cmd_status"}

StatusOnly ==
    /\ [][\A p \in Procs :
            (InStatusCommand(p) \/ pc'[p] = "cmd_ensure") =>
               /\ migrations' = migrations
               /\ files' = files
               /\ attempts'[p] = <<>>
               /\ executed'[p] = <<>>
               /\ txn'[p] = <<>>]_vars
    /\ [][\A p \in Procs :
            (InStatusCommand(p) /\ pc'[p] # pc[p]) =>
               pc'[p] \in {"cmd_status", "done", "crashed"}]_vars
    /\ [](\A p \in Procs :
            (pc[p] = "done" /\ stdout[p] = <<"status">> /\ ~changed) =>
               FullListing(p))

\* the status command ended and listed a 'failed' row while the script of
\* that row is in the directory, still to be applied
StatusOnlyWitness ==
    \E p \in Procs :
        /\ pc[p] = "done"
        /\ stdout[p] = <<"status">>
        /\ ~changed
        /\ \E i \in 1..Len(listing[p]) : \E f \in DOMAIN files :
              /\ listing[p][i].status = "failed"
              /\ listing[p][i].version = SplitFirst(f, "_")

(***************************************************************************)
(* C21  rollback <version> changes nothing in the database: whatever the   *)
(* version, known to the table or not, the command opens no connection,    *)
(* executes no script, leaves every row, the table and the directory as    *)
(* they are, and only prints its instructions for that version.            *)
(***************************************************************************)
\* this step is the rollback command of p
RollbackStep(p) ==
    /\ runs' # runs
    /\ stdout'[p] # <<>>
    /\ stdout'[p][1] = "rollback_instructions"

RollbackOnly ==
    [][\A p \in Procs :
          RollbackStep(p) =>
             /\ migrations' = migrations
             /\ table_exists' = table_exists
             /\ files' = files
             /\ connUp' = connUp
             /\ attempts'[p] = <<>>
             /\ executed'[p] = <<>>
             /\ txn'[p] = <<>>
             /\ Len(stdout'[p]) = 2
             /\ stdout'[p][2] \in VersionArgs
             /\ pc'[p] = "done"]_vars

\* rollback was given the version of a row that is 'applied', and has ended
RollbackOnlyWitness ==
    \E p \in Procs :
        /\ pc[p] = "done"
        /\ Len(stdout[p]) = 2
        /\ stdout[p][1] = "rollback_instructions"
        /\ StatusOf(migrations, stdout[p][2]) = {"applied"}

(***************************************************************************)
(* C22  Any other command line ('rollback' without a version, an unknown   *)
(* command) prints the usage text, touches no database state and ends the  *)
(* process with a non-zero exit status.                                    *)
(***************************************************************************)
\* this step is p printing the usage text
UsageStep(p) == runs' # runs /\ stdout'[p] = <<"usage">>

UsageExit ==
    [][\A p \in Procs :
          UsageStep(p) =>
             /\ migrations' = migrations
             /\ table_exists' = table_exists
             /\ files' = files
             /\ connUp' = connUp
             /\ pc'[p] = "done"
             /\ exit_status'[p] \notin {NoExit, ExitOk}]_vars

(***************************************************************************)
(* C23  Applied is stable: no step of a migrate() run changes the status   *)
(* of a row that is 'applied', whatever scripts the directory holds,       *)
(* scripts that share a version prefix included.                           *)
(***************************************************************************)
\* this step is a step of a migrate() run
MigrateStep == \E p \in Procs : pc'[p] # pc[p] /\ "migrate" \in Elems(stdout'[p])

AppliedStable ==
    [][MigrateStep =>
          \A v \in {migrations[i].version : i \in 1..Len(migrations)} :
             "applied" \in StatusOf(migrations, v) =>
                StatusOf(migrations', v) = {"applied"}]_vars

\* the same for runs whose discovered scripts have distinct versions
AppliedStableDistinct ==
    [][(MigrateStep /\ \A p \in Procs : DistinctVersions(p)) =>
          \A v \in {migrations[i].version : i \in 1..Len(migrations)} :
             "applied" \in StatusOf(migrations, v) =>
                StatusOf(migrations', v) = {"applied"}]_vars

(***************************************************************************)
(* C30  Connection release: an invocation that opened a connection, a      *)
(* migrate() run or the status command, has closed its cursor and its      *)
(* connection when the process ends, on every exit path, the paths where   *)
(* an error leaves the apply phase or the status display included.         *)
(***************************************************************************)
\* the process of p has ended
Ended(p) == pc[p] \in {"done", "crashed", "exited"}

ConnectionRelease == \A p \in Procs : Ended(p) => ~open_conn[p]

\* the same for migrate() runs alone
ConnectionReleaseMigrate ==
    \A p \in Procs : (Ended(p) /\ IsMigrateRun(p)) => ~open_conn[p]

(***************************************************************************)
(* src/cli/db_connection.py: the pool, get_connection() and                *)
(* execute_query().  A statement is a record: its op names the SQL text,   *)
(* its other fields are the parameters bound to the %s of that text.       *)
(***************************************************************************)
\* what the server and the network do to one get_connection() call: whether
\* MySQLConnectionPool(...) can be built, whether the pool hands out a
\* connection, whether mysql.connector.connect(...) succeeds
PoolEnvs == [init_ok : BOOLEAN, pool_gives : BOOLEAN, direct_ok : BOOLEAN]

\* what the server does to the statement on a connection that was obtained:
\* nothing, the statement raises Error on a usable connection, the
\* connection is lost at the statement, the commit raises Error
Faults == {"none", "statement", "lost", "commit"}

FaultsOf(fetch, conn) ==
    IF conn \notin {"pooled", "direct"} THEN {"none"}
    ELSE IF fetch THEN Faults \ {"commit"}
    ELSE Faults

\* init_pool(): the global connection_pool afterwards
init_pool(pool, init_ok) == IF init_ok THEN "pool" ELSE pool

\* get_connection(): the global afterwards, and the connection returned or
\* the exception raised
get_connection(pool, env) ==
    LET after == IF pool = "None" THEN init_pool(pool, env.init_ok) ELSE pool
    IN  [pool |-> after,
         conn |-> IF after = "None" THEN "AttributeError"
                  ELSE IF env.pool_gives THEN "pooled"
                  ELSE IF env.direct_ok THEN "direct"
                  ELSE "Error"]

\* the rows of Inventory with this resource and warehouse
Matching(inv, resource, warehouse) ==
    {row \in inv : row.resource_id = resource /\ row.warehouse_location = warehouse}

\* the assignments of an UPDATE Disaster statement, applied from left to
\* right to one row, each %s taking the next parameter
RECURSIVE ApplyUpdates(_, _, _, _)
ApplyUpdates(row, updates, params, today) ==
    IF updates = <<>> THEN row
    ELSE IF Head(updates) = "status = %s"
         THEN ApplyUpdates([row EXCEPT !.status = Head(params)],
                           Tail(updates), Tail(params), today)
    ELSE IF Head(updates) = "end_date = CURDATE()"
         THEN ApplyUpdates([row EXCEPT !.end_date = today],
                           Tail(updates), params, today)
    ELSE ApplyUpdates([row EXCEPT !.severity = Head(params)],
                      Tail(updates), Tail(params), today)

\* the rows a SELECT returns (cursor.fetchall() with dictionary=True)
Fetch(tables, stmt) ==
    LET m == Matching(tables.Inventory, stmt.resource, stmt.warehouse)
    IN  IF m = {} THEN <<>>
        ELSE <<[quantity_available |-> (CHOOSE row \in m : TRUE).quantity_available]>>

\* UPDATE Request SET status = 'Approved' WHERE request_id = %s
ApproveUpdateAny(requests, request_id) ==
    [i \in 1..Len(requests) |->
        IF i = request_id
        THEN [requests[i] EXCEPT !.status = "Approved"]
        ELSE requests[i]]

\* UPDATE Request SET status = 'Approved' WHERE request_id = %s AND status = 'Pending'
ApproveUpdate(requests, request_id) ==
    [i \in 1..Len(requests) |->
        IF i = request_id /\ requests[i].status = "Pending"
        THEN [requests[i] EXCEPT !.status = "Approved"]
        ELSE requests[i]]

\* the tables after a statement that writes has been executed and committed
Effect(tables, stmt) ==
    CASE stmt.op = "deduct" ->
           [tables EXCEPT !.Inventory =
              {IF row \in Matching(@, stmt.resource, stmt.warehouse)
               THEN [row EXCEPT !.quantity_available = @ - stmt.quantity]
               ELSE row : row \in @}]
      [] stmt.op = "add" ->
           [tables EXCEPT !.Inventory =
              IF Matching(@, stmt.resource, stmt.warehouse) = {}
              THEN @ \cup {[resource_id |-> stmt.resource,
                            warehouse_location |-> stmt.warehouse,
                            quantity_available |-> stmt.quantity]}
              ELSE {IF row \in Matching(@, stmt.resource, stmt.warehouse)
                    THEN [row EXCEPT !.quantity_available = @ + stmt.quantity]
                    ELSE row : row \in @}]
      [] stmt.op = "insert_request" ->
           [tables EXCEPT !.Request =
              Append(@, [area_id |-> stmt.area, resource_id |-> stmt.resource,
                         quantity_requested |-> stmt.quantity,
                         urgency |-> stmt.urgency, status |-> stmt.status])]
      [] stmt.op = "approve" ->
           [tables EXCEPT !.Request = ApproveUpdate(@, stmt.request_id)]
      [] stmt.op = "update_disaster" ->
           [tables EXCEPT !.Disaster =
              [i \in 1..Len(@) |->
                 IF i = Last(stmt.params)
                 THEN ApplyUpdates(@[i], stmt.updates, stmt.params, stmt.today)
                 ELSE @[i]]]
      [] OTHER -> tables

\* cursor.lastrowid after the statement: the AUTO_INCREMENT id of the row an
\* INSERT made, 0 after an UPDATE
LastRowId(tables, stmt) ==
    IF stmt.op = "insert_request" THEN Len(tables.Request) + 1 ELSE 0

\* a finally clause that closes the cursor alone
finally_cursor_only(cursor, conn) == [cursor_closed |-> cursor, conn_closed |-> FALSE]

\* the finally clause of execute_query (lines 79-83): what it closes, given
\* whether cursor and conn were set
finally_clause(cursor, conn) == [cursor_closed |-> cursor, conn_closed |-> conn]

\* execute_query(query, params, fetch), lines 58-83: the tables afterwards and
\* what the call did, when get_connection() gave `conn` and the server does
\* `fault` to the statement
execute_query(tables, stmt, fetch, conn, fault) ==
    LET call == [NoRes EXCEPT !.called = TRUE, !.by = "execute_query",
                              !.fetch = fetch, !.conn = conn, !.fault = fault]
        closed == finally_clause(TRUE, TRUE)
        ended == [call EXCEPT !.cursor_closed = closed.cursor_closed,
                              !.conn_closed = closed.conn_closed]
    IN
    IF conn = "AttributeError"
    THEN \* line 63 raises an exception that is no Error: nothing was acquired
         [tables |-> tables, res |-> [call EXCEPT !.raised = "AttributeError"]]
    ELSE IF conn = "Error"
    THEN \* line 63 raises Error: lines 74-78 with conn = None
         [tables |-> tables, res |-> call]
    ELSE IF fault = "statement"
    THEN \* line 65 raises Error: print, conn.rollback(), return None
         [tables |-> tables, res |-> [ended EXCEPT !.rolled_back = TRUE]]
    ELSE IF fault = "lost"
    THEN \* line 65 raises Error and conn.rollback() of line 77 raises too
         [tables |-> tables, res |-> [ended EXCEPT !.raised = "Error"]]
    ELSE IF fetch
    THEN [tables |-> tables,
          res |-> [ended EXCEPT !.ret_none = FALSE, !.rows = Fetch(tables, stmt)]]
    ELSE IF fault = "commit"
    THEN \* line 71 raises Error: print, conn.rollback(), return None
         [tables |-> tables, res |-> [ended EXCEPT !.rolled_back = TRUE]]
    ELSE [tables |-> Effect(tables, stmt),
          res |-> [ended EXCEPT !.ret_none = FALSE, !.committed = TRUE,
                                !.lastrowid = LastRowId(tables, stmt)]]

\* one execute_query call of a process: the global pool afterwards, the
\* tables afterwards, what the call did
Call(pool, tables, stmt, fetch, env, fault) ==
    LET got == get_connection(pool, env)
        out == execute_query(tables, stmt, fetch, got.conn, fault)
    IN  [pool |-> got.pool,
         tables |-> out.tables,
         res |-> [out.res EXCEPT !.direct_ok = env.direct_ok]]

\* every way the call can go
Calls(pool, tables, stmt, fetch) ==
    UNION {{Call(pool, tables, stmt, fetch, env, fault) :
              fault \in FaultsOf(fetch, get_connection(pool, env).conn)} :
           env \in PoolEnvs}

(***************************************************************************)
(* src/cli/commands/inventory_cmd.py: inventory transfer.                  *)
(***************************************************************************)
MaxQty == 1

Resources  == {1}
Warehouses == {"A", "B"}

\* --quantity is any integer
Quantities == -1..MaxQty

\* lines 176-180, 189-194 and 197-203: the three statements
check_query(resource, from_warehouse) ==
    [op |-> "select_quantity", resource |-> resource, warehouse |-> from_warehouse]

deduct_query(quantity, resource, from_warehouse) ==
    [op |-> "deduct", quantity |-> quantity, resource |-> resource,
     warehouse |-> from_warehouse]

add_query(resource, to_warehouse, quantity) ==
    [op |-> "add", resource |-> resource, warehouse |-> to_warehouse,
     quantity |-> quantity]

\* line 182: not source or source[0]['quantity_available'] < quantity
Insufficient(r, quantity) ==
    \/ r.ret_none
    \/ r.rows = <<>>
    \/ r.rows[1].quantity_available < quantity

\* lines 173-185: the check of the source stock
TransferCheck(p) ==
    /\ cpc[p] = "idle"
    /\ \E resource \in Resources, from_warehouse \in Warehouses,
          to_warehouse \in Warehouses, quantity \in Quantities :
          /\ cmd' = [cmd EXCEPT ![p] =
                       [name |-> "transfer", resource |-> resource,
                        from_warehouse |-> from_warehouse,
                        to_warehouse |-> to_warehouse, quantity |-> quantity]]
          /\ \E o \in Calls("None", db, check_query(resource, from_warehouse), TRUE) :
                /\ connection_pool' = [connection_pool EXCEPT ![p] = o.pool]
                /\ db' = o.tables
                /\ res' = o.res
                /\ IF o.res.raised # "none"
                   THEN /\ cpc' = [cpc EXCEPT ![p] = "crashed"]
                        /\ UNCHANGED <<source, echo>>
                   ELSE /\ source' = [source EXCEPT ![p] = o.res.rows]
                        /\ IF Insufficient(o.res, quantity)
                           THEN /\ echo' = [echo EXCEPT ![p] = <<"insufficient">>]
                                /\ cpc' = [cpc EXCEPT ![p] = "done"]
                           ELSE /\ cpc' = [cpc EXCEPT ![p] = "deduct"]
                                /\ UNCHANGED echo
    /\ UNCHANGED <<stock0, migrateVars>>

\* lines 187-194: the deduction from the source
TransferDeduct(p) ==
    /\ cpc[p] = "deduct"
    /\ \E o \in Calls(connection_pool[p], db,
                      deduct_query(cmd[p].quantity, cmd[p].resource,
                                   cmd[p].from_warehouse), FALSE) :
          /\ connection_pool' = [connection_pool EXCEPT ![p] = o.pool]
          /\ db' = o.tables
          /\ res' = o.res
          /\ cpc' = [cpc EXCEPT ![p] = IF o.res.raised # "none" THEN "crashed" ELSE "add"]
    /\ UNCHANGED <<stock0, cmd, source, echo, migrateVars>>

\* lines 196-205: the addition to the destination
TransferAdd(p) ==
    /\ cpc[p] = "add"
    /\ \E o \in Calls(connection_pool[p], db,
                      add_query(cmd[p].resource, cmd[p].to_warehouse,
                                cmd[p].quantity), FALSE) :
          /\ connection_pool' = [connection_pool EXCEPT ![p] = o.pool]
          /\ db' = o.tables
          /\ res' = o.res
          /\ IF o.res.raised # "none"
             THEN /\ cpc' = [cpc EXCEPT ![p] = "crashed"]
                  /\ UNCHANGED echo
             ELSE /\ cpc' = [cpc EXCEPT ![p] = "done"]
                  /\ echo' = [echo EXCEPT ![p] = <<"transferred">>]
    /\ UNCHANGED <<stock0, cmd, source, migrateVars>>

transfer_stock(p) ==
    \/ TransferCheck(p)
    \/ TransferDeduct(p)
    \/ TransferAdd(p)

\* the Inventory tables the commands may find: at most one row for a
\* resource and a warehouse, no quantity below zero
Stocks ==
    UNION {{ {[resource_id |-> k[1], warehouse_location |-> k[2],
               quantity_available |-> f[k]] : k \in keys} :
             f \in [keys -> 0..MaxQty]} :
           keys \in SUBSET (Resources \X Warehouses)}

InitInventory ==
    /\ files = <<>>
    /\ NoInvocationYet
    /\ db \in {[NoTables EXCEPT !.Inventory = inv] : inv \in Stocks}
    /\ stock0 = db.Inventory
    /\ cpc = [p \in CliProcs |-> "idle"]
    /\ cmd = [p \in CliProcs |-> NoCmd]
    /\ source = [p \in CliProcs |-> <<>>]
    /\ connection_pool = [p \in CliProcs |-> "None"]
    /\ res = NoRes
    /\ echo = [p \in CliProcs |-> <<>>]

NextInventory == \E p \in CliProcs : transfer_stock(p)

SpecInventory == InitInventory /\ [][NextInventory]_vars

\* one inventory transfer at a time
CliMain == {"c1"}

NextTransfer == \E p \in CliMain : transfer_stock(p)

SpecTransfer == InitInventory /\ [][NextTransfer]_vars

(***************************************************************************)
(* C24  Inventory transfer conserves stock: when the command has ended, on *)
(* whatever path, the quantity of the resource summed over the source and  *)
(* the destination warehouse is what it was before the command.            *)
(***************************************************************************)
RECURSIVE SumQuantity(_)
SumQuantity(rows) ==
    IF rows = {} THEN 0
    ELSE LET row == CHOOSE r \in rows : TRUE
         IN  row.quantity_available + SumQuantity(rows \ {row})

\* the stock of a resource in a set of warehouses
Total(inv, resource, warehouses) ==
    SumQuantity({row \in inv : /\ row.resource_id = resource
                              /\ row.warehouse_location \in warehouses})

CommandEnded(p) == cpc[p] \in {"done", "crashed"}

StockConserved ==
    \A p \in CliProcs :
        (CommandEnded(p) /\ cmd[p].name = "transfer") =>
           Total(db.Inventory, cmd[p].resource,
                 {cmd[p].from_warehouse, cmd[p].to_warehouse})
             = Total(stock0, cmd[p].resource,
                     {cmd[p].from_warehouse, cmd[p].to_warehouse})

(***************************************************************************)
(* C25  Inventory transfer never drives stock negative: whatever integer   *)
(* quantities the transfers are given and however two transfers on one     *)
(* source interleave, no Inventory row has a quantity below zero; and a    *)
(* transfer rejected for insufficient stock changes no row.                *)
(***************************************************************************)
StockNonNegative ==
    /\ [](\A row \in db.Inventory : row.quantity_available >= 0)
    /\ [][\A p \in CliProcs :
            (echo'[p] = <<"insufficient">> /\ cpc'[p] # cpc[p]) =>
               db'.Inventory = db.Inventory]_vars

\* a rejected transfer changes no row
RejectedChangesNothing ==
    [][\A p \in CliProcs :
          (echo'[p] = <<"insufficient">> /\ cpc'[p] # cpc[p]) =>
             db'.Inventory = db.Inventory]_vars

(***************************************************************************)
(* C27  execute_query failure handling: when the statement raises a        *)
(* database Error, execute_query rolls back, commits nothing and returns   *)
(* None instead of raising; on every path the cursor and the connection it *)
(* acquired are closed before it returns.                                  *)
(***************************************************************************)
\* this step is an execute_query call
QueryStep == cpc' # cpc /\ res'.by = "execute_query"

Acquired(r) == r.conn \in {"pooled", "direct"}

\* C27 as claimed
QueryFailureOriginal ==
    [][QueryStep =>
          /\ res'.fault \in {"statement", "lost"} =>
                /\ res'.rolled_back
                /\ ~res'.committed
                /\ res'.ret_none
                /\ res'.raised = "none"
                /\ db' = db
          /\ Acquired(res') => (res'.cursor_closed /\ res'.conn_closed)]_vars

\* C27 amended: when the statement (or the commit) raises Error on a
\* connection that is still usable, execute_query rolls back, commits
\* nothing and returns None; when the Error is the loss of the connection,
\* the rollback of the handler raises too and that Error leaves
\* execute_query, nothing being committed; on every path the cursor and the
\* connection that were acquired are closed.
QueryFailure ==
    [][QueryStep =>
          /\ res'.fault \in {"statement", "commit"} =>
                /\ res'.rolled_back
                /\ ~res'.committed
                /\ res'.ret_none
                /\ res'.raised = "none"
                /\ db' = db
          /\ res'.fault = "lost" =>
                /\ res'.raised = "Error"
                /\ ~res'.committed
                /\ db' = db
          /\ Acquired(res') => (res'.cursor_closed /\ res'.conn_closed)]_vars

\* the deduct statement raised Error on a usable connection: the call rolled
\* back, closed its connection and returned None, and the transfer goes on
QueryFailureWitness ==
    /\ res.by = "execute_query"
    /\ ~res.fetch
    /\ res.fault = "statement"
    /\ res.rolled_back
    /\ res.ret_none
    /\ res.conn_closed
    /\ \E p \in CliProcs : cpc[p] = "add"

(***************************************************************************)
(* C28  Pool fallback: get_connection() returns a connection whenever a    *)
(* direct connection is possible, both when the pool cannot hand one out   *)
(* and when the pool could not be initialised.                             *)
(***************************************************************************)
PoolFallback ==
    (res.by = "execute_query" /\ res.direct_ok) => Acquired(res)

\* the same when the pool exists
PoolFallbackWithPool ==
    (res.by = "execute_query" /\ res.direct_ok /\ res.conn # "AttributeError")
       => Acquired(res)

(***************************************************************************)
(* src/webapp/models/database.py: query_db(), as the API route uses it.    *)
(***************************************************************************)
\* query_db(query, args) for a statement that is no SELECT, lines 35-57: the
\* tables afterwards and what the call did, when get_db() gave a connection
\* or None and the server does `fault` to the statement
query_db(tables, stmt, connected, fault) ==
    LET call == [NoRes EXCEPT !.called = TRUE, !.by = "query_db",
                              !.conn = IF connected THEN "direct" ELSE "Error",
                              !.direct_ok = connected, !.fault = fault]
    IN
    IF ~connected
    THEN \* get_db() returned None: lines 38-39
         [tables |-> tables, res |-> call]
    ELSE IF fault \in {"statement", "commit"}
    THEN \* lines 54-57: print, db.rollback(), return None
         [tables |-> tables, res |-> [call EXCEPT !.rolled_back = TRUE]]
    ELSE IF fault = "lost"
    THEN \* db.rollback() of line 56 raises too
         [tables |-> tables, res |-> [call EXCEPT !.raised = "Error"]]
    ELSE [tables |-> Effect(tables, stmt),
          res |-> [call EXCEPT !.ret_none = FALSE, !.committed = TRUE,
                               !.cursor_closed = TRUE,
                               !.lastrowid = LastRowId(tables, stmt)]]

\* every way one query_db call can go
WebCalls(tables, stmt) ==
    UNION {{query_db(tables, stmt, connected, fault) :
              fault \in FaultsOf(FALSE, IF connected THEN "direct" ELSE "Error")} :
           connected \in BOOLEAN}

(***************************************************************************)
(* src/cli/commands/request_cmd.py and POST /api/requests.                 *)
(***************************************************************************)
MaxRequests == 2

RequestStatuses ==
    {"Pending", "Approved", "Fulfilled", "Partially_Fulfilled", "Rejected"}

Urgencies == {"Critical", "Medium"}

Areas == {1}

\* the INSERT of request_cmd.py lines 88-91 and of api.py lines 327-330,
\* with the status its text holds
insert_request(area, resource, quantity, urgency) ==
    [op |-> "insert_request", area |-> area, resource |-> resource,
     quantity |-> quantity, urgency |-> urgency, status |-> "Pending"]

\* the UPDATE of request_cmd.py line 107
approve_query(request_id) == [op |-> "approve", request_id |-> request_id]

\* a new process: the command line is parsed, or the HTTP request arrives
RequestCommand(p) ==
    /\ cpc[p] \in {"idle", "done", "crashed"}
    /\ \/ \E area \in Areas, resource \in Resources, urgency \in Urgencies,
            name \in {"request create", "POST /api/requests"} :
            /\ Len(db.Request) < MaxRequests
            /\ cmd' = [cmd EXCEPT ![p] =
                         [name |-> name, area |-> area, resource |-> resource,
                          quantity |-> 1, urgency |-> urgency]]
       \/ \E request_id \in 1..(MaxRequests + 1) :
            cmd' = [cmd EXCEPT ![p] =
                      [name |-> "request approve", request_id |-> request_id]]
    /\ cpc' = [cpc EXCEPT ![p] = "running"]
    /\ connection_pool' = [connection_pool EXCEPT ![p] = "None"]
    /\ echo' = [echo EXCEPT ![p] = <<>>]
    /\ res' = NoRes
    /\ UNCHANGED <<db, stock0, source, migrateVars>>

\* request create, request_cmd.py lines 86-100
create_request(p) ==
    /\ cpc[p] = "running"
    /\ cmd[p].name = "request create"
    /\ \E o \in Calls(connection_pool[p], db,
                      insert_request(cmd[p].area, cmd[p].resource,
                                     cmd[p].quantity, cmd[p].urgency), FALSE) :
          /\ connection_pool' = [connection_pool EXCEPT ![p] = o.pool]
          /\ db' = o.tables
          /\ res' = o.res
          /\ IF o.res.raised # "none"
             THEN /\ cpc' = [cpc EXCEPT ![p] = "crashed"]
                  /\ UNCHANGED echo
             ELSE /\ cpc' = [cpc EXCEPT ![p] = "done"]
                  /\ echo' = [echo EXCEPT ![p] =
                                IF ~o.res.ret_none /\ o.res.lastrowid # 0
                                THEN <<"created">> ELSE <<"failed">>]
    /\ UNCHANGED <<stock0, cmd, source, migrateVars>>

\* POST /api/requests, api.py lines 322-340
api_create_request(p) ==
    /\ cpc[p] = "running"
    /\ cmd[p].name = "POST /api/requests"
    /\ \E o \in WebCalls(db, insert_request(cmd[p].area, cmd[p].resource,
                                            cmd[p].quantity, cmd[p].urgency)) :
          /\ db' = o.tables
          /\ res' = o.res
          /\ IF o.res.raised # "none"
             THEN /\ cpc' = [cpc EXCEPT ![p] = "crashed"]
                  /\ echo' = [echo EXCEPT ![p] = <<"500">>]
             ELSE /\ cpc' = [cpc EXCEPT ![p] = "done"]
                  /\ echo' = [echo EXCEPT ![p] =
                                IF ~o.res.ret_none /\ o.res.lastrowid # 0
                                THEN <<"201">> ELSE <<"400">>]
    /\ UNCHANGED <<stock0, cmd, source, connection_pool, migrateVars>>

\* request approve, request_cmd.py lines 103-109
approve_request(p) ==
    /\ cpc[p] = "running"
    /\ cmd[p].name = "request approve"
    /\ \E o \in Calls(connection_pool[p], db, approve_query(cmd[p].request_id), FALSE) :
          /\ connection_pool' = [connection_pool EXCEPT ![p] = o.pool]
          /\ db' = o.tables
          /\ res' = o.res
          /\ IF o.res.raised # "none"
             THEN /\ cpc' = [cpc EXCEPT ![p] = "crashed"]
                  /\ UNCHANGED echo
             ELSE /\ cpc' = [cpc EXCEPT ![p] = "done"]
                  /\ echo' = [echo EXCEPT ![p] = <<"approved">>]
    /\ UNCHANGED <<stock0, cmd, source, migrateVars>>

\* the Request tables the commands may find
RequestRows ==
    [area_id : Areas, resource_id : Resources, quantity_requested : {1},
     urgency : {"Medium"}, status : RequestStatuses]

RequestTables == UNION {[1..n -> RequestRows] : n \in 0..MaxRequests}

InitRequest ==
    /\ files = <<>>
    /\ NoInvocationYet
    /\ db \in {[NoTables EXCEPT !.Request = t] : t \in RequestTables}
    /\ stock0 = {}
    /\ cpc = [p \in CliProcs |-> "idle"]
    /\ cmd = [p \in CliProcs |-> NoCmd]
    /\ source = [p \in CliProcs |-> <<>>]
    /\ connection_pool = [p \in CliProcs |-> "None"]
    /\ res = NoRes
    /\ echo = [p \in CliProcs |-> <<>>]

NextRequest ==
    \/ \E p \in CliMain : RequestCommand(p)
    \/ \E p \in CliMain : create_request(p)
    \/ \E p \in CliMain : api_create_request(p)
    \/ \E p \in CliMain : approve_request(p)

SpecRequest == InitRequest /\ [][NextRequest]_vars

(***************************************************************************)
(* C26  Request status writes: a request created by request create or by   *)
(* POST /api/requests starts as 'Pending'; request approve makes a request *)
(* 'Approved' only when it is 'Pending', and leaves a request of any other *)
(* status, and the table when the id does not exist, unchanged.            *)
(***************************************************************************)
\* this step is the body of the command of p
CommandStep(p) == cpc[p] = "running" /\ cpc'[p] # "running"

RequestStatusWrites ==
    [][\A p \in CliProcs :
          CommandStep(p) =>
             /\ \A i \in 1..Len(db.Request) :
                   /\ i <= Len(db'.Request)
                   /\ db'.Request[i].status # db.Request[i].status =>
                         /\ cmd[p].name = "request approve"
                         /\ cmd[p].request_id = i
                         /\ db.Request[i].status = "Pending"
                         /\ db'.Request[i].status = "Approved"
             /\ \A i \in (Len(db.Request) + 1)..Len(db'.Request) :
                   /\ cmd[p].name \in {"request create", "POST /api/requests"}
                   /\ db'.Request[i].status = "Pending"
             /\ (cmd[p].name \in {"request create", "POST /api/requests"}
                   /\ res'.committed) =>
                   /\ Len(db'.Request) = Len(db.Request) + 1
                   /\ Last(db'.Request).status = "Pending"
             /\ (cmd[p].name = "request approve" /\ res'.committed
                   /\ cmd[p].request_id <= Len(db.Request)
                   /\ db.Request[cmd[p].request_id].status = "Pending") =>
                   db'.Request[cmd[p].request_id].status = "Approved"
             /\ (cmd[p].name = "request approve"
                   /\ \/ cmd[p].request_id > Len(db.Request)
                      \/ db.Request[cmd[p].request_id].status # "Pending") =>
                   db'.Request = db.Request]_vars

\* request approve was given the id of a 'Rejected' request, its UPDATE was
\* committed, and the request is still 'Rejected'
RequestStatusWritesWitness ==
    \E p \in CliProcs :
        /\ cpc[p] = "done"
        /\ cmd[p].name = "request approve"
        /\ res.committed
        /\ cmd[p].request_id <= Len(db.Request)
        /\ db.Request[cmd[p].request_id].status = "Rejected"

(***************************************************************************)
(* src/cli/commands/disaster_cmd.py: disaster update.                      *)
(***************************************************************************)
MaxDisasters == 2
MaxDay == 1

\* what CURDATE() gives; the end dates already in the table are earlier
CURDATE == MaxDay

\* an option that was not given (None)
NoOption == ""

DisasterStatuses == {"Active", "Resolved", "Monitoring"}
Severities == {"Minor", "Extreme"}

\* lines 142-149 setting end_date for whatever status is given
BuildUpdatesAnyStatus(status_opt, severity_opt) ==
    LET s == IF status_opt # NoOption
             THEN [updates |-> <<"status = %s", "end_date = CURDATE()">>,
                   params |-> <<status_opt>>]
             ELSE [updates |-> <<>>, params |-> <<>>]
    IN  IF severity_opt # NoOption
        THEN [updates |-> Append(s.updates, "severity = %s"),
              params |-> Append(s.params, severity_opt)]
        ELSE s

\* lines 142-153: the assignments and parameters the options give
BuildUpdates(status_opt, severity_opt) ==
    LET s == IF status_opt # NoOption
             THEN [updates |-> IF status_opt = "Resolved"
                               THEN <<"status = %s", "end_date = CURDATE()">>
                               ELSE <<"status = %s">>,
                   params |-> <<status_opt>>]
             ELSE [updates |-> <<>>, params |-> <<>>]
    IN  IF severity_opt # NoOption
        THEN [updates |-> Append(s.updates, "severity = %s"),
              params |-> Append(s.params, severity_opt)]
        ELSE s

\* lines 159-160: the UPDATE, with disaster_id as its last parameter
update_query(built, disaster_id) ==
    [op |-> "update_disaster", updates |-> built.updates,
     params |-> Append(built.params, disaster_id), today |-> CURDATE]

\* a new process: the command line is parsed
DisasterCommand(p) ==
    /\ cpc[p] \in {"idle", "done", "crashed"}
    /\ \E disaster_id \in 1..(MaxDisasters + 1),
          status_opt \in DisasterStatuses \cup {NoOption},
          severity_opt \in Severities \cup {NoOption} :
          cmd' = [cmd EXCEPT ![p] =
                    [name |-> "disaster update", disaster_id |-> disaster_id,
                     status |-> status_opt, severity |-> severity_opt]]
    /\ cpc' = [cpc EXCEPT ![p] = "running"]
    /\ connection_pool' = [connection_pool EXCEPT ![p] = "None"]
    /\ echo' = [echo EXCEPT ![p] = <<>>]
    /\ res' = NoRes
    /\ UNCHANGED <<db, stock0, source, migrateVars>>

\* disaster update, lines 140-163
update_disaster(p) ==
    /\ cpc[p] = "running"
    /\ cmd[p].name = "disaster update"
    /\ LET built == BuildUpdates(cmd[p].status, cmd[p].severity)
       IN  IF built.updates = <<>>
           THEN /\ echo' = [echo EXCEPT ![p] = <<"no_updates">>]
                /\ cpc' = [cpc EXCEPT ![p] = "done"]
                /\ UNCHANGED <<db, res, connection_pool>>
           ELSE \E o \in Calls(connection_pool[p], db,
                               update_query(built, cmd[p].disaster_id), FALSE) :
                   /\ connection_pool' = [connection_pool EXCEPT ![p] = o.pool]
                   /\ db' = o.tables
                   /\ res' = o.res
                   /\ IF o.res.raised # "none"
                      THEN /\ cpc' = [cpc EXCEPT ![p] = "crashed"]
                           /\ UNCHANGED echo
                      ELSE /\ cpc' = [cpc EXCEPT ![p] = "done"]
                           /\ echo' = [echo EXCEPT ![p] = <<"updated">>]
    /\ UNCHANGED <<stock0, cmd, source, migrateVars>>

\* the Disaster tables the command may find
DisasterRows ==
    [status : DisasterStatuses, severity : Severities,
     end_date : {NULL} \cup 0..(MaxDay - 1)]

DisasterTables == UNION {[1..n -> DisasterRows] : n \in 0..MaxDisasters}

InitDisaster ==
    /\ files = <<>>
    /\ NoInvocationYet
    /\ db \in {[NoTables EXCEPT !.Disaster = t] : t \in DisasterTables}
    /\ stock0 = {}
    /\ cpc = [p \in CliProcs |-> "idle"]
    /\ cmd = [p \in CliProcs |-> NoCmd]
    /\ source = [p \in CliProcs |-> <<>>]
    /\ connection_pool = [p \in CliProcs |-> "None"]
    /\ res = NoRes
    /\ echo = [p \in CliProcs |-> <<>>]

NextDisaster ==
    \/ \E p \in CliMain : DisasterCommand(p)
    \/ \E p \in CliMain : update_disaster(p)

SpecDisaster == InitDisaster /\ [][NextDisaster]_vars

(***************************************************************************)
(* C29  disaster update and end_date: with status Resolved the UPDATE that *)
(* sets the status sets end_date to the current date; with any other       *)
(* status, or with a severity alone, end_date stays as it is (a disaster   *)
(* moved from Resolved back to Active or Monitoring keeps its end_date);   *)
(* with neither option no UPDATE is issued.                                *)
(***************************************************************************)
\* the row the command of p names, when the table has it
Named(p, table) == {i \in 1..Len(table) : i = cmd[p].disaster_id}

DisasterEndDate ==
    [][\A p \in CliProcs :
          (CommandStep(p) /\ cmd[p].name = "disaster update") =>
             /\ Len(db'.Disaster) = Len(db.Disaster)
             /\ \A i \in 1..Len(db.Disaster) :
                   db'.Disaster[i] # db.Disaster[i] => (i \in Named(p, db.Disaster) /\ res'.committed)
             /\ (cmd[p].status = NoOption /\ cmd[p].severity = NoOption) =>
                   /\ ~res'.called
                   /\ db' = db
                   /\ echo'[p] = <<"no_updates">>
             /\ (cmd[p].status # NoOption \/ cmd[p].severity # NoOption) =>
                   /\ res'.called
                   /\ \A i \in Named(p, db.Disaster) :
                         /\ (cmd[p].status = "Resolved" /\ res'.committed) =>
                               /\ db'.Disaster[i].status = "Resolved"
                               /\ db'.Disaster[i].end_date = CURDATE
                         /\ (cmd[p].status \notin {"Resolved", NoOption} /\ res'.committed) =>
                               db'.Disaster[i].status = cmd[p].status
                         /\ cmd[p].status # "Resolved" =>
                               db'.Disaster[i].end_date = db.Disaster[i].end_date
                         /\ ~res'.committed => db'.Disaster[i] = db.Disaster[i]]_vars

\* a disaster that was Resolved, with the end date the command gave it, was
\* moved back to Active and has kept that end date
DisasterEndDateWitness ==
    \E p \in CliProcs :
        /\ cpc[p] = "done"
        /\ cmd[p].name = "disaster update"
        /\ cmd[p].status = "Active"
        /\ res.committed
        /\ \E i \in Named(p, db.Disaster) :
              /\ db.Disaster[i].status = "Active"
              /\ db.Disaster[i].end_date = CURDATE

====
